---- MODULE Spec2Model ----
(***************************************************************************)
(* Model of the JSON-to-directory-tree materializer of bsky_dl.py:         *)
(* filter_empty_and_noise, modify_media_quality, sanitize_filename,        *)
(* categorize_item_content, get_meaningful_list_name,                      *)
(* get_filename_for_value and the recursion of save_json_as_tree.          *)
(*                                                                         *)
(* Python strings are TLA+ strings; a character is a string of length 1.  *)
(* A decoded JSON value is a record tagged by t:                           *)
(*   None  [t |-> "null"]            bool  [t |-> "bool",  b |-> TRUE]     *)
(*   int   [t |-> "int", n |-> 10]   float [t |-> "float", f |-> "1.5"]    *)
(*   str   [t |-> "str", s |-> "x"]  list  [t |-> "list", items |-> <<>>]  *)
(*   dict  [t |-> "map", kv |-> << <<key, value>>, ... >>]                 *)
(* A dict keeps its insertion order; a float is named by its repr().      *)
(*                                                                         *)
(* The module also models the paginated downloads of bsky_view.py (pager), *)
(* get_session of bsky_connect.py (session) and main of bsky_profile_dl.py *)
(* (cli). Each has its own specification; the variables of the others      *)
(* rest at their idle values meanwhile.                                    *)
(***************************************************************************)
EXTENDS Integers, Sequences, FiniteSets, TLC

VARIABLES input, max_depth, high_quality, stack, dirs, files, log, status, run, prev,
          pager, session, cli

\* the variables of save_json_as_tree
tree == <<input, max_depth, high_quality, stack, dirs, files, log, status, run, prev>>

vars == <<input, max_depth, high_quality, stack, dirs, files, log, status, run, prev,
          pager, session, cli>>

-----------------------------------------------------------------------------
(* Python string primitives *)

Ch(s, i) == SubSeq(s, i, i)

StartsWith(s, p) == Len(s) >= Len(p) /\ SubSeq(s, 1, Len(p)) = p

Contains(s, p) == \E i \in 1..(Len(s) - Len(p) + 1) : SubSeq(s, i, i + Len(p) - 1) = p

HasChar(s, c) == \E i \in 1..Len(s) : Ch(s, i) = c

\* str.replace(old, new): non-overlapping occurrences, leftmost first
RECURSIVE Replace(_, _, _)
Replace(s, old, new) ==
    IF Len(s) < Len(old) THEN s
    ELSE IF SubSeq(s, 1, Len(old)) = old
         THEN new \o Replace(SubSeq(s, Len(old) + 1, Len(s)), old, new)
         ELSE Ch(s, 1) \o Replace(SubSeq(s, 2, Len(s)), old, new)

\* the characters \s matches among those the model uses
IsSpace(c) == c \in {" ", "\t", "\n"}

\* str.strip() with no argument
RECURSIVE LStripSpace(_)
LStripSpace(s) == IF Len(s) > 0 /\ IsSpace(Ch(s, 1)) THEN LStripSpace(SubSeq(s, 2, Len(s))) ELSE s

RECURSIVE RStripSpace(_)
RStripSpace(s) == IF Len(s) > 0 /\ IsSpace(Ch(s, Len(s))) THEN RStripSpace(SubSeq(s, 1, Len(s) - 1)) ELSE s

StripSpace(s) == LStripSpace(RStripSpace(s))

\* str.strip(' .')
RECURSIVE LStripSpaceDot(_)
LStripSpaceDot(s) ==
    IF Len(s) > 0 /\ Ch(s, 1) \in {" ", "."} THEN LStripSpaceDot(SubSeq(s, 2, Len(s))) ELSE s

RECURSIVE RStripSpaceDot(_)
RStripSpaceDot(s) ==
    IF Len(s) > 0 /\ Ch(s, Len(s)) \in {" ", "."} THEN RStripSpaceDot(SubSeq(s, 1, Len(s) - 1)) ELSE s

\* s[:n]
Prefix(s, n) == IF Len(s) > n THEN SubSeq(s, 1, n) ELSE s

\* s.split(sep)[-1] for a one-character separator
RECURSIVE LastPart(_, _)
LastPart(s, sep) ==
    IF Len(s) = 0 \/ Ch(s, Len(s)) = sep THEN ""
    ELSE LastPart(SubSeq(s, 1, Len(s) - 1), sep) \o Ch(s, Len(s))

Digit(d) == CASE d = 0 -> "0" [] d = 1 -> "1" [] d = 2 -> "2" [] d = 3 -> "3" [] d = 4 -> "4"
              [] d = 5 -> "5" [] d = 6 -> "6" [] d = 7 -> "7" [] d = 8 -> "8" [] d = 9 -> "9"

RECURSIVE NatStr(_)
NatStr(n) == IF n < 10 THEN Digit(n) ELSE NatStr(n \div 10) \o Digit(n % 10)

\* str(n) of an int
IntStr(n) == IF n < 0 THEN "-" \o NatStr(0 - n) ELSE NatStr(n)

\* f"{index:04d}" for index >= 0
RECURSIVE ZeroPad(_, _)
ZeroPad(s, w) == IF Len(s) >= w THEN s ELSE ZeroPad("0" \o s, w)

Index04d(i) == ZeroPad(NatStr(i), 4)

-----------------------------------------------------------------------------
(* Values *)

None == [t |-> "null"]
VBool(x) == [t |-> "bool", b |-> x]
VInt(x) == [t |-> "int", n |-> x]
VFloat(x) == [t |-> "float", f |-> x]
VStr(x) == [t |-> "str", s |-> x]
VList(x) == [t |-> "list", items |-> x]
VMap(x) == [t |-> "map", kv |-> x]

IsDict(v) == v.t = "map"
IsList(v) == v.t = "list"
IsStr(v) == v.t = "str"
IsContainer(v) == v.t \in {"map", "list"}

\* key in data
HasKey(m, k) == \E i \in 1..Len(m.kv) : m.kv[i][1] = k

\* data[key]
Get(m, k) == m.kv[CHOOSE i \in 1..Len(m.kv) : m.kv[i][1] = k][2]

\* len(x) of a dict or a list
PyLen(v) == IF IsDict(v) THEN Len(v.kv) ELSE Len(v.items)

\* bool(x): Python truthiness
Truthy(v) ==
    CASE v.t = "null" -> FALSE
      [] v.t = "bool" -> v.b
      [] v.t = "int" -> v.n # 0
      [] v.t = "float" -> v.f \notin {"0.0", "-0.0"}
      [] v.t = "str" -> v.s # ""
      [] v.t = "list" -> v.items # <<>>
      [] v.t = "map" -> v.kv # <<>>

-----------------------------------------------------------------------------
(* str(), repr() and json.dumps() *)

\* one character of repr(str) inside the quote q
ReprChar(c, q) ==
    CASE c = "\\" -> "\\\\"
      [] c = "\n" -> "\\n"
      [] c = "\t" -> "\\t"
      [] c = q -> "\\" \o q
      [] OTHER -> c

\* the characters lo..hi of s, escaped (split in halves to keep the evaluation shallow)
RECURSIVE ReprRange(_, _, _, _)
ReprRange(s, q, lo, hi) ==
    IF lo > hi THEN "" ELSE IF lo = hi THEN ReprChar(Ch(s, lo), q)
    ELSE ReprRange(s, q, lo, (lo + hi) \div 2) \o ReprRange(s, q, (lo + hi) \div 2 + 1, hi)

ReprBody(s, q) == ReprRange(s, q, 1, Len(s))

\* repr() of a str: double quotes only when it holds ' and no "
ReprStr(s) ==
    LET q == IF HasChar(s, "'") /\ ~HasChar(s, "\"") THEN "\"" ELSE "'"
    IN  q \o ReprBody(s, q) \o q

RECURSIVE PyRepr(_)
RECURSIVE ReprItems(_)
RECURSIVE ReprPairs(_)

ReprItems(items) ==
    IF items = <<>> THEN ""
    ELSE PyRepr(Head(items)) \o (IF Len(items) > 1 THEN ", " ELSE "") \o ReprItems(Tail(items))

ReprPairs(kv) ==
    IF kv = <<>> THEN ""
    ELSE ReprStr(Head(kv)[1]) \o ": " \o PyRepr(Head(kv)[2])
         \o (IF Len(kv) > 1 THEN ", " ELSE "") \o ReprPairs(Tail(kv))

PyRepr(v) ==
    CASE v.t = "null" -> "None"
      [] v.t = "bool" -> IF v.b THEN "True" ELSE "False"
      [] v.t = "int" -> IntStr(v.n)
      [] v.t = "float" -> v.f
      [] v.t = "str" -> ReprStr(v.s)
      [] v.t = "list" -> "[" \o ReprItems(v.items) \o "]"
      [] v.t = "map" -> "{" \o ReprPairs(v.kv) \o "}"

\* str(x)
PyStr(v) == IF v.t = "str" THEN v.s ELSE PyRepr(v)

JsonChar(c) ==
    CASE c = "\\" -> "\\\\"
      [] c = "\n" -> "\\n"
      [] c = "\t" -> "\\t"
      [] c = "\"" -> "\\\""
      [] OTHER -> c

RECURSIVE JsonRange(_, _, _)
JsonRange(s, lo, hi) ==
    IF lo > hi THEN "" ELSE IF lo = hi THEN JsonChar(Ch(s, lo))
    ELSE JsonRange(s, lo, (lo + hi) \div 2) \o JsonRange(s, (lo + hi) \div 2 + 1, hi)

JsonBody(s) == JsonRange(s, 1, Len(s))

\* a JSON string literal with ensure_ascii=False
JsonStr(s) == "\"" \o JsonBody(s) \o "\""

RECURSIVE Spaces(_)
Spaces(n) == IF n <= 0 THEN "" ELSE " " \o Spaces(n - 1)

\* json.dumps(x, indent=ind) at nesting level lvl; ind < 0 stands for indent=None
RECURSIVE JsonDump(_, _, _)
RECURSIVE JsonItems(_, _, _)
RECURSIVE JsonPairs(_, _, _)

JsonSep(ind, lvl) == IF ind < 0 THEN ", " ELSE ",\n" \o Spaces(ind * lvl)

JsonOpen(ind, lvl) == IF ind < 0 THEN "" ELSE "\n" \o Spaces(ind * lvl)

JsonItems(items, ind, lvl) ==
    IF items = <<>> THEN ""
    ELSE JsonDump(Head(items), ind, lvl)
         \o (IF Len(items) > 1 THEN JsonSep(ind, lvl) ELSE "") \o JsonItems(Tail(items), ind, lvl)

JsonPairs(kv, ind, lvl) ==
    IF kv = <<>> THEN ""
    ELSE JsonStr(Head(kv)[1]) \o ": " \o JsonDump(Head(kv)[2], ind, lvl)
         \o (IF Len(kv) > 1 THEN JsonSep(ind, lvl) ELSE "") \o JsonPairs(Tail(kv), ind, lvl)

JsonDump(v, ind, lvl) ==
    CASE v.t = "null" -> "null"
      [] v.t = "bool" -> IF v.b THEN "true" ELSE "false"
      [] v.t = "int" -> IntStr(v.n)
      [] v.t = "float" -> v.f
      [] v.t = "str" -> JsonStr(v.s)
      [] v.t = "list" ->
            IF v.items = <<>> THEN "[]"
            ELSE "[" \o JsonOpen(ind, lvl + 1) \o JsonItems(v.items, ind, lvl + 1)
                 \o JsonOpen(ind, lvl) \o "]"
      [] v.t = "map" ->
            IF v.kv = <<>> THEN "{}"
            ELSE "{" \o JsonOpen(ind, lvl + 1) \o JsonPairs(v.kv, ind, lvl + 1)
                 \o JsonOpen(ind, lvl) \o "}"

\* json.dumps(value, ensure_ascii=False, default=str)
json_dumps(v) == JsonDump(v, -1, 0)

\* json.dump(value, f, indent=2, ensure_ascii=False, default=str)
json_dump_indent2(v) == JsonDump(v, 2, 0)

-----------------------------------------------------------------------------
(* Naming: sanitize_filename and get_filename_for_value *)

\* re.sub(r'[<>:"/\\|?*]', '_', name)
IllegalChars == {"<", ">", ":", "\"", "/", "\\", "|", "?", "*"}

RECURSIVE ReplaceIllegalRange(_, _, _)
ReplaceIllegalRange(s, lo, hi) ==
    IF lo > hi THEN "" ELSE IF lo = hi THEN (IF Ch(s, lo) \in IllegalChars THEN "_" ELSE Ch(s, lo))
    ELSE ReplaceIllegalRange(s, lo, (lo + hi) \div 2)
         \o ReplaceIllegalRange(s, (lo + hi) \div 2 + 1, hi)

ReplaceIllegal(s) == ReplaceIllegalRange(s, 1, Len(s))

\* re.sub(r'[_\s]+', '_', sanitized)
IsUnderscoreOrSpace(c) == c = "_" \/ IsSpace(c)

\* a run of [_\s] leaves one "_", emitted at the run's last character
CollapseAt(s, i) ==
    IF ~IsUnderscoreOrSpace(Ch(s, i)) THEN Ch(s, i)
    ELSE IF i < Len(s) /\ IsUnderscoreOrSpace(Ch(s, i + 1)) THEN "" ELSE "_"

RECURSIVE CollapseRange(_, _, _)
CollapseRange(s, lo, hi) ==
    IF lo > hi THEN "" ELSE IF lo = hi THEN CollapseAt(s, lo)
    ELSE CollapseRange(s, lo, (lo + hi) \div 2) \o CollapseRange(s, (lo + hi) \div 2 + 1, hi)

CollapseRuns(s) == CollapseRange(s, 1, Len(s))

NameLimit == 200

\* mutant: the problematic characters left as they are
sanitize_filename_KeepSeparators(name) ==
    LET collapsed == CollapseRuns(name)
        stripped == LStripSpaceDot(RStripSpaceDot(collapsed))
        limited == IF Len(stripped) > NameLimit THEN SubSeq(stripped, 1, NameLimit) ELSE stripped
    IN  IF limited = "" THEN "unnamed" ELSE limited

sanitize_filename(name) ==
    LET replaced == ReplaceIllegal(name)
        collapsed == CollapseRuns(replaced)
        stripped == LStripSpaceDot(RStripSpaceDot(collapsed))
        limited == IF Len(stripped) > NameLimit THEN SubSeq(stripped, 1, NameLimit) ELSE stripped
    IN  IF limited = "" THEN "unnamed" ELSE limited

TextLimit == 100

\* mutant: the length of a string tested before its prefixes
ExtensionLengthFirst(value) ==
    IF value.t = "null" THEN ".null"
    ELSE IF value.t = "bool" THEN ".bool"
    ELSE IF value.t = "int" THEN ".int"
    ELSE IF value.t = "float" THEN ".float"
    ELSE IF value.t = "str" THEN
        IF Len(value.s) > TextLimit THEN ".text"
        ELSE IF StartsWith(value.s, "http://") \/ StartsWith(value.s, "https://") THEN ".url"
        ELSE IF StartsWith(value.s, "at://") THEN ".at_uri"
        ELSE IF HasChar(value.s, "@") /\ HasChar(value.s, ".") THEN ".handle"
        ELSE IF StartsWith(value.s, "did:") THEN ".did"
        ELSE ".str"
    ELSE ".txt"

\* the extension chosen by get_filename_for_value
Extension(value) ==
    IF value.t = "null" THEN ".null"
    ELSE IF value.t = "bool" THEN ".bool"
    ELSE IF value.t = "int" THEN ".int"
    ELSE IF value.t = "float" THEN ".float"
    ELSE IF value.t = "str" THEN
        IF StartsWith(value.s, "http://") \/ StartsWith(value.s, "https://") THEN ".url"
        ELSE IF StartsWith(value.s, "at://") THEN ".at_uri"
        ELSE IF HasChar(value.s, "@") /\ HasChar(value.s, ".") THEN ".handle"
        ELSE IF StartsWith(value.s, "did:") THEN ".did"
        ELSE IF Len(value.s) > TextLimit THEN ".text"
        ELSE ".str"
    ELSE ".txt"

\* mutant: the test of the key inverted
get_filename_for_value_NoKey(key, value) ==
    LET base_name == IF key = "" THEN sanitize_filename(key) ELSE "data"
    IN  base_name \o Extension(value)

\* key is a str, possibly empty
get_filename_for_value(key, value) ==
    LET base_name == IF key # "" THEN sanitize_filename(key) ELSE "data"
    IN  base_name \o Extension(value)

-----------------------------------------------------------------------------
(* Filter pass *)

filtered_keys ==
    {"py_type", "type", "start", "end", "index", "size", "ref",
     "mime_type", "bookmarked", "pinned", "disabled",
     "byte_start", "byte_end", "activity_subscription", "blocking",
     "blocking_by_list", "muted_by_list", "known_followers",
     "embedding_disabled", "thread_muted", "reply_disabled",
     "labels", "viewer", "verification", "associated", "status",
     "chat", "feedgens", "labeler", "lists", "starter_packs",
     "entities", "threadgate", "feed_context", "req_id"}

\* mutant: only the keys of the first group of the list are noise
should_filter_key_FirstGroup(key) ==
    key \in {"py_type", "type", "start", "end", "index", "size", "ref",
             "mime_type", "bookmarked", "pinned", "disabled"}

should_filter_key(key) == key \in filtered_keys

modify_media_quality(url) ==
    IF url = "" THEN url
    ELSE IF Contains(url, "cdn.bsky.app") /\ Contains(url, "feed_fullsize")
         THEN Replace(url, "feed_fullsize", "feed_thumbnail")
         ELSE url

MediaKeys == {"fullsize", "thumb", "avatar"}

\* the tests of lines 85-90 on an already filtered value
IsSkipped(fv) ==
    \/ fv = None
    \/ (IsContainer(fv) /\ PyLen(fv) = 0)
    \/ (IsStr(fv) /\ StripSpace(fv.s) = "")

RECURSIVE filter_empty_and_noise(_)
RECURSIVE FilterPairs(_)
RECURSIVE FilterItems(_)

\* mutant: a value tested for emptiness before it is filtered, not after
FilterPairsTestFirst(kv) ==
    IF kv = <<>> THEN <<>>
    ELSE LET key == Head(kv)[1]
             rest == FilterPairs(Tail(kv))
         IN  IF should_filter_key(key) \/ IsSkipped(Head(kv)[2]) THEN rest
             ELSE << <<key, filter_empty_and_noise(Head(kv)[2])>> >> \o rest

\* mutant: the surviving keys in the reverse of their order
FilterPairsReversed(kv) ==
    IF kv = <<>> THEN <<>>
    ELSE LET key == Head(kv)[1]
             rest == FilterPairs(Tail(kv))
         IN  IF should_filter_key(key) THEN rest
             ELSE LET filtered_value == filter_empty_and_noise(Head(kv)[2])
                  IN  IF IsSkipped(filtered_value) THEN rest
                      ELSE IF key \in MediaKeys /\ IsStr(filtered_value)
                           THEN rest \o << <<key, VStr(modify_media_quality(filtered_value.s))>> >>
                           ELSE rest \o << <<key, filtered_value>> >>

\* the loop over data.items()
FilterPairs(kv) ==
    IF kv = <<>> THEN <<>>
    ELSE LET key == Head(kv)[1]
             rest == FilterPairs(Tail(kv))
         IN  IF should_filter_key(key) THEN rest
             ELSE LET filtered_value == filter_empty_and_noise(Head(kv)[2])
                  IN  IF IsSkipped(filtered_value) THEN rest
                      ELSE IF key \in MediaKeys /\ IsStr(filtered_value)
                           THEN << <<key, VStr(modify_media_quality(filtered_value.s))>> >> \o rest
                           ELSE << <<key, filtered_value>> >> \o rest

\* mutant: the items of a list tested like the values of a dict
FilterItemsSkipBlank(items) ==
    IF items = <<>> THEN <<>>
    ELSE LET filtered_item == filter_empty_and_noise(Head(items))
             rest == FilterItems(Tail(items))
         IN  IF ~IsSkipped(filtered_item) THEN <<filtered_item>> \o rest ELSE rest

\* the loop over the items of a list
FilterItems(items) ==
    IF items = <<>> THEN <<>>
    ELSE LET filtered_item == filter_empty_and_noise(Head(items))
             rest == FilterItems(Tail(items))
         IN  IF filtered_item # None THEN <<filtered_item>> \o rest ELSE rest

\* mutant: a list left empty is returned as it is
filter_KeepEmptyList(data) ==
    IF IsDict(data) THEN
        LET filtered == FilterPairs(data.kv)
        IN  IF filtered # <<>> THEN VMap(filtered) ELSE None
    ELSE IF IsList(data) THEN VList(FilterItems(data.items))
    ELSE data

\* mutant: a dict left empty is returned as it is
filter_KeepEmptyDict(data) ==
    IF IsDict(data) THEN VMap(FilterPairs(data.kv))
    ELSE IF IsList(data) THEN
        LET filtered == FilterItems(data.items)
        IN  IF filtered # <<>> THEN VList(filtered) ELSE None
    ELSE data

\* None stands for Python's None, which the callers read as "nothing left"
filter_empty_and_noise(data) ==
    IF IsDict(data) THEN
        LET filtered == FilterPairs(data.kv)
        IN  IF filtered # <<>> THEN VMap(filtered) ELSE None
    ELSE IF IsList(data) THEN
        LET filtered == FilterItems(data.items)
        IN  IF filtered # <<>> THEN VList(filtered) ELSE None
    ELSE data

-----------------------------------------------------------------------------
(* Categorizer and list item names *)

\* mutant: the media rule tried before the profile rule
categorize_MediaBeforeProfiles(data) ==
    IF IsDict(data) THEN
        IF HasKey(data, "text") /\ HasKey(data, "author") THEN "posts"
        ELSE IF HasKey(data, "post") /\ IsDict(Get(data, "post")) THEN "posts"
        ELSE IF Contains(PyStr(data), "fullsize") \/ Contains(PyStr(data), "thumb")
                \/ HasKey(data, "images")
             THEN "media"
        ELSE IF HasKey(data, "handle") \/ HasKey(data, "did") \/ HasKey(data, "display_name")
             THEN "profiles"
        ELSE IF HasKey(data, "external") \/ HasKey(data, "embed") THEN "embeds"
        ELSE IF HasKey(data, "reply") \/ HasKey(data, "parent") \/ HasKey(data, "root")
             THEN "threads"
        ELSE IF HasKey(data, "reason") \/ HasKey(data, "by") THEN "interactions"
        ELSE "content"
    ELSE "content"

categorize_item_content(data) ==
    IF IsDict(data) THEN
        IF HasKey(data, "text") /\ HasKey(data, "author") THEN "posts"
        ELSE IF HasKey(data, "post") /\ IsDict(Get(data, "post")) THEN "posts"
        ELSE IF HasKey(data, "handle") \/ HasKey(data, "did") \/ HasKey(data, "display_name")
             THEN "profiles"
        ELSE IF Contains(PyStr(data), "fullsize") \/ Contains(PyStr(data), "thumb")
                \/ HasKey(data, "images")
             THEN "media"
        ELSE IF HasKey(data, "external") \/ HasKey(data, "embed") THEN "embeds"
        ELSE IF HasKey(data, "reply") \/ HasKey(data, "parent") \/ HasKey(data, "root")
             THEN "threads"
        ELSE IF HasKey(data, "reason") \/ HasKey(data, "by") THEN "interactions"
        ELSE "content"
    ELSE "content"

\* `needle in v` raises TypeError when v is None, a bool or a number
InRaises(v) == v.t \in {"null", "bool", "int", "float"}

\* `needle in v` for a dict (key), a str (substring) or a list (element)
PyIn(needle, v) ==
    CASE v.t = "map" -> HasKey(v, needle)
      [] v.t = "str" -> Contains(v.s, needle)
      [] v.t = "list" -> \E i \in 1..Len(v.items) : v.items[i] = VStr(needle)
      [] OTHER -> FALSE

\* v['key'] raises TypeError unless v is a dict
SubscriptRaises(v) == ~IsDict(v)

Named(name) == [ok |-> TRUE, name |-> name]

\* the call ends in a TypeError
Raised == [ok |-> FALSE, name |-> ""]

\* mutant: the name without its index
ItemNameNoIndex(index, category, ident) == Named(category \o "_" \o ident)

ItemName(index, category, ident) == Named(Index04d(index) \o "_" \o category \o "_" \o ident)

\* lines 188-198: the first of the identifying keys that is present and truthy
IdentifyingKeys == <<"handle", "did", "uri", "title", "name", "display_name">>

RECURSIVE GenericName(_, _, _, _)
GenericName(item, index, category, keys) ==
    IF keys = <<>> THEN Named(Index04d(index) \o "_item")
    ELSE LET key == Head(keys)
         IN  IF HasKey(item, key) /\ Truthy(Get(item, key))
             THEN LET value == PyStr(Get(item, key))
                      cut == IF key = "uri" /\ HasChar(value, "/") THEN Prefix(LastPart(value, "/"), 20)
                             ELSE IF key = "did" /\ HasChar(value, ":") THEN Prefix(LastPart(value, ":"), 15)
                             ELSE value
                  IN  ItemName(index, category, sanitize_filename(cut))
             ELSE GenericName(item, index, category, Tail(keys))

\* lines 182-186
ProfileName(item, index, category) ==
    IF HasKey(item, "handle") /\ Truthy(Get(item, "handle"))
    THEN ItemName(index, category, sanitize_filename(PyStr(Get(item, "handle"))))
    ELSE IF HasKey(item, "display_name") /\ Truthy(Get(item, "display_name"))
    THEN ItemName(index, category, sanitize_filename(PyStr(Get(item, "display_name"))))
    ELSE GenericName(item, index, category, IdentifyingKeys)

\* lines 177-179, and the fall through to line 188
PostAuthorName(item, index, category, post_data) ==
    IF ~HasKey(post_data, "author") THEN GenericName(item, index, category, IdentifyingKeys)
    ELSE LET author == Get(post_data, "author")
         IN  IF InRaises(author) THEN Raised
             ELSE IF ~PyIn("handle", author) THEN GenericName(item, index, category, IdentifyingKeys)
             ELSE IF SubscriptRaises(author) THEN Raised
             ELSE ItemName(index, category, sanitize_filename(PyStr(Get(author, "handle"))))

\* lines 170-179
PostName(item, index, category) ==
    IF ~(HasKey(item, "post") /\ IsDict(Get(item, "post")))
    THEN GenericName(item, index, category, IdentifyingKeys)
    ELSE LET post_data == Get(item, "post")
         IN  IF ~HasKey(post_data, "record") THEN PostAuthorName(item, index, category, post_data)
             ELSE LET record == Get(post_data, "record")
                  IN  IF InRaises(record) THEN Raised
                      ELSE IF ~PyIn("text", record) THEN PostAuthorName(item, index, category, post_data)
                      ELSE IF SubscriptRaises(record) THEN Raised
                      ELSE LET text_snippet ==
                                   StripSpace(Replace(Prefix(PyStr(Get(record, "text")), 30), "\n", " "))
                           IN  IF text_snippet # ""
                               THEN ItemName(index, category, sanitize_filename(text_snippet))
                               ELSE PostAuthorName(item, index, category, post_data)

\* [ok |-> TRUE, name |-> the name], or Raised
get_meaningful_list_name(item, index) ==
    IF IsDict(item) THEN
        LET category == categorize_item_content(item)
        IN  IF category = "posts" THEN PostName(item, index, category)
            ELSE IF category = "profiles" THEN ProfileName(item, index, category)
            ELSE GenericName(item, index, category, IdentifyingKeys)
    ELSE Named(Index04d(index) \o "_item")

-----------------------------------------------------------------------------
(* The filesystem and the pending calls of save_json_as_tree *)

\* A path is the sequence of names below the base path of the root call;
\* <<>> is that base path itself.
EmptyFiles == [p \in {} |-> ""]

Prefixes(path) == {SubSeq(path, 1, n) : n \in 0..Len(path)}

\* mutant: mkdir without exist_ok
MkdirRaisesIfExists(path, fs) == path \in dirs \/ \E q \in Prefixes(path) : q \in DOMAIN fs

\* base_path.mkdir(parents=True, exist_ok=True) raises FileExistsError or
\* NotADirectoryError when the path or one of its parents is a file
MkdirRaises(path, fs) == \E q \in Prefixes(path) : q \in DOMAIN fs

\* open(path, 'w') raises IsADirectoryError when the path is a directory
OpenRaises(path, ds) == path \in ds

WriteFile(fs, path, content) ==
    [q \in DOMAIN fs \cup {path} |-> IF q = path THEN content ELSE fs[q]]

\* a pending call save_json_as_tree(data, base_path, current_depth, max_depth, parent_key);
\* kind "raise" is the point where the caller's loop raises instead of calling
Frame(data, base_path, current_depth, parent_key) ==
    [kind |-> "call", data |-> data, base_path |-> base_path,
     current_depth |-> current_depth, parent_key |-> parent_key]

RaiseFrame(base_path, current_depth) ==
    [kind |-> "raise", data |-> None, base_path |-> base_path,
     current_depth |-> current_depth, parent_key |-> None]

\* parent_key or default
KeyOr(parent_key, default) == IF Truthy(parent_key) THEN parent_key.s ELSE default

ChunkThreshold == 500

\* mutant: every container at max depth gets a .json file, whatever its size
MaxDepthEntryAlwaysJson(key, value) ==
    IF IsContainer(value)
    THEN [op |-> "json", name |-> sanitize_filename(key) \o ".json",
          content |-> json_dump_indent2(value), val |-> value]
    ELSE [op |-> "leaf", name |-> get_filename_for_value(key, value),
          content |-> PyStr(value), val |-> value]

\* lines 256-264: the file one key of a mapping at max depth is written to
MaxDepthEntry(key, value) ==
    IF IsContainer(value) /\ Len(PyStr(value)) > ChunkThreshold
    THEN [op |-> "json", name |-> sanitize_filename(key) \o ".json",
          content |-> json_dump_indent2(value), val |-> value]
    ELSE [op |-> "leaf", name |-> get_filename_for_value(key, value),
          content |-> IF IsContainer(value) THEN json_dumps(value) ELSE PyStr(value),
          val |-> value]

\* lines 326-334: the content of a primitive's file
LeafContent(value) ==
    IF value = None THEN "null"
    ELSE IF value.t = "bool" THEN (IF value.b THEN "true" ELSE "false")
    ELSE PyStr(value)

\* lines 274-284: the keys of a data section by category, "" for the uncategorized
CategoryOf(value) ==
    IF IsDict(value) /\ categorize_item_content(value) # "content"
    THEN categorize_item_content(value) ELSE ""

\* the pairs of kv whose category is c, in order
RECURSIVE PairsOfCategory(_, _)
PairsOfCategory(kv, c) ==
    IF kv = <<>> THEN <<>>
    ELSE (IF CategoryOf(Head(kv)[2]) = c THEN <<Head(kv)>> ELSE <<>>) \o PairsOfCategory(Tail(kv), c)

\* the categories in the order categorized_content got them
RECURSIVE CategoryOrder(_, _)
CategoryOrder(kv, seen) ==
    IF kv = <<>> THEN <<>>
    ELSE LET c == CategoryOf(Head(kv)[2])
         IN  IF c = "" \/ c \in seen THEN CategoryOrder(Tail(kv), seen)
             ELSE <<c>> \o CategoryOrder(Tail(kv), seen \cup {c})

\* mutant: the call for a category folder at the depth of its caller
CategoryFramesSameDepth(f, kv) ==
    LET order == CategoryOrder(kv, {})
    IN  [i \in 1..Len(order) |->
            Frame(VMap(PairsOfCategory(kv, order[i])), Append(f.base_path, order[i]),
                  f.current_depth, VStr(order[i]))]

\* lines 287-289
CategoryFrames(f, kv) ==
    LET order == CategoryOrder(kv, {})
    IN  [i \in 1..Len(order) |->
            Frame(VMap(PairsOfCategory(kv, order[i])), Append(f.base_path, order[i]),
                  f.current_depth + 1, VStr(order[i]))]

\* mutant: the calls for the keys are given the values of the data as it was
\* before line 245
KeyFramesUnfiltered(f, kv) ==
    [i \in 1..Len(f.data.kv) |->
        Frame(f.data.kv[i][2], Append(f.base_path, sanitize_filename(f.data.kv[i][1])),
              f.current_depth + 1, VStr(f.data.kv[i][1]))]

\* mutant: the calls for the keys at the depth of their caller
KeyFramesSameDepth(f, kv) ==
    [i \in 1..Len(kv) |->
        Frame(kv[i][2], Append(f.base_path, sanitize_filename(kv[i][1])),
              f.current_depth, VStr(kv[i][1]))]

\* lines 292-295 and 298-301
KeyFrames(f, kv) ==
    [i \in 1..Len(kv) |->
        Frame(kv[i][2], Append(f.base_path, sanitize_filename(kv[i][1])),
              f.current_depth + 1, VStr(kv[i][1]))]

RECURSIVE ItemFrames(_, _, _)

\* mutant: the items numbered from 1
ItemFramesFromOne(f, items, i) ==
    IF i > Len(items) THEN <<>>
    ELSE LET safe_name == get_meaningful_list_name(items[i], i)
         IN  IF ~safe_name.ok THEN <<RaiseFrame(f.base_path, f.current_depth)>>
             ELSE <<Frame(items[i], Append(f.base_path, safe_name.name),
                          f.current_depth + 1, VStr("item_" \o NatStr(i)))>>
                  \o ItemFrames(f, items, i + 1)

\* lines 311-320: one call per item, up to the first item whose name raises
ItemFrames(f, items, i) ==
    IF i > Len(items) THEN <<>>
    ELSE LET safe_name == get_meaningful_list_name(items[i], i - 1)
         IN  IF ~safe_name.ok THEN <<RaiseFrame(f.base_path, f.current_depth)>>
             ELSE <<Frame(items[i], Append(f.base_path, safe_name.name),
                          f.current_depth + 1, VStr("item_" \o NatStr(i - 1)))>>
                  \o ItemFrames(f, items, i + 1)

-----------------------------------------------------------------------------
(* save_json_as_tree, one action per call and branch *)

top == Head(stack)

filtered_data == filter_empty_and_noise(top.data)

CallPending == status = "running" /\ stack # <<>> /\ top.kind = "call"

\* the call has passed lines 245-250
Entered == CallPending /\ filtered_data # None /\ ~MkdirRaises(top.base_path, files)

\* the number this call has in the log
CallId == Len(log) + 1

\* The log of a run: one entry per call ("absent" when it returns at line 247,
\* "mkdir" when it passes line 250; new tells whether the directory was made there)
\* and one per file written ("leaf", "json" or "chunk"; val is the value written).
MkdirEvent ==
    [op |-> "mkdir", call |-> CallId, depth |-> top.current_depth, path |-> top.base_path,
     val |-> None, content |-> "", new |-> top.base_path \notin dirs]

WriteEvent(path, e, fs) ==
    [op |-> e.op, call |-> CallId, depth |-> top.current_depth, path |-> path,
     val |-> e.val, content |-> e.content, new |-> path \notin DOMAIN fs]

IsCall(e) == e.op \in {"mkdir", "absent"}

IsWrite(e) == e.op \in {"leaf", "json", "chunk"}

Abort ==
    /\ stack' = <<>>
    /\ status' = "failed"

\* lines 246-247: nothing is left of the data
ReturnAbsent ==
    /\ CallPending
    /\ filtered_data = None
    /\ stack' = Tail(stack)
    /\ log' = Append(log, [op |-> "absent", call |-> CallId, depth |-> top.current_depth,
                           path |-> top.base_path, val |-> None, content |-> "", new |-> FALSE])
    /\ UNCHANGED <<pager, session, cli, input, max_depth, high_quality, dirs, files, status, run, prev>>

\* line 250 raises: a file is in the way of the directory
MkdirFails ==
    /\ CallPending
    /\ filtered_data # None
    /\ MkdirRaises(top.base_path, files)
    /\ Abort
    /\ UNCHANGED <<pager, session, cli, input, max_depth, high_quality, dirs, files, log, run, prev>>

\* the files of entries written in order into base_path, until one cannot be opened
RECURSIVE WriteAll(_, _, _, _)
WriteAll(entries, base_path, fs, events) ==
    IF entries = <<>> THEN [files |-> fs, events |-> events, ok |-> TRUE]
    ELSE LET e == Head(entries)
             path == Append(base_path, e.name)
         IN  IF OpenRaises(path, dirs) THEN [files |-> fs, events |-> events, ok |-> FALSE]
             ELSE WriteAll(Tail(entries), base_path, WriteFile(fs, path, e.content),
                           Append(events, WriteEvent(path, e, fs)))

\* what the branches that write files do with their entries
WriteEntries(entries) ==
    LET done == WriteAll(entries, top.base_path, files, <<MkdirEvent>>)
    IN  /\ dirs' = dirs \cup Prefixes(top.base_path)
        /\ files' = done.files
        /\ log' = log \o done.events
        /\ IF done.ok THEN stack' = Tail(stack) /\ status' = status ELSE Abort
        /\ UNCHANGED <<pager, session, cli, input, max_depth, high_quality, run, prev>>

\* what the branches that recurse do with their calls
Descend(frames) ==
    /\ dirs' = dirs \cup Prefixes(top.base_path)
    /\ log' = Append(log, MkdirEvent)
    /\ stack' = frames \o Tail(stack)
    /\ UNCHANGED <<pager, session, cli, input, max_depth, high_quality, files, status, run, prev>>

\* lines 255-266: one file per key
MaxDepthEntries ==
    [i \in 1..Len(filtered_data.kv) |->
        MaxDepthEntry(filtered_data.kv[i][1], filtered_data.kv[i][2])]

\* mutant: the sequence is written as the call was given it, not as filtered
ChunkEntriesUnfiltered ==
    <<[op |-> "chunk",
       name |-> sanitize_filename(KeyOr(top.parent_key, "list")) \o "_chunk.json",
       content |-> json_dump_indent2(top.data), val |-> top.data]>>

\* lines 306-308: the file of a sequence at max depth
ChunkEntries ==
    <<[op |-> "chunk",
       name |-> sanitize_filename(KeyOr(top.parent_key, "list")) \o "_chunk.json",
       content |-> json_dump_indent2(filtered_data), val |-> filtered_data]>>

\* mutant: the file of a primitive without a parent key named "data"
PrimitiveEntriesData ==
    <<[op |-> "leaf",
       name |-> get_filename_for_value(KeyOr(top.parent_key, "data"), filtered_data),
       content |-> LeafContent(filtered_data), val |-> filtered_data]>>

\* lines 324-337: the file of a primitive
PrimitiveEntries ==
    <<[op |-> "leaf",
       name |-> get_filename_for_value(KeyOr(top.parent_key, "value"), filtered_data),
       content |-> LeafContent(filtered_data), val |-> filtered_data]>>

\* lines 253-266
MappingAtMaxDepth ==
    /\ Entered
    /\ IsDict(filtered_data)
    /\ top.current_depth >= max_depth
    /\ WriteEntries(MaxDepthEntries)

\* lines 269-295
MappingByCategory ==
    /\ Entered
    /\ IsDict(filtered_data)
    /\ top.current_depth < max_depth
    /\ top.parent_key = VStr("data")
    /\ PyLen(filtered_data) > 3
    /\ Descend(CategoryFrames(top, filtered_data.kv)
               \o KeyFrames(top, PairsOfCategory(filtered_data.kv, "")))

\* mutant: the depth test off by one
MappingByKeyLate ==
    /\ Entered
    /\ IsDict(filtered_data)
    /\ top.current_depth <= max_depth
    /\ ~(top.parent_key = VStr("data") /\ PyLen(filtered_data) > 3)
    /\ Descend(KeyFrames(top, filtered_data.kv))

\* lines 296-301
MappingByKey ==
    /\ Entered
    /\ IsDict(filtered_data)
    /\ top.current_depth < max_depth
    /\ ~(top.parent_key = VStr("data") /\ PyLen(filtered_data) > 3)
    /\ Descend(KeyFrames(top, filtered_data.kv))

\* lines 304-308
SequenceAtMaxDepth ==
    /\ Entered
    /\ IsList(filtered_data)
    /\ top.current_depth >= max_depth
    /\ WriteEntries(ChunkEntries)

\* lines 309-320
SequenceByItem ==
    /\ Entered
    /\ IsList(filtered_data)
    /\ top.current_depth < max_depth
    /\ Descend(ItemFrames(top, filtered_data.items, 1))

\* line 312 raised a TypeError in get_meaningful_list_name
NameRaises ==
    /\ status = "running"
    /\ stack # <<>>
    /\ top.kind = "raise"
    /\ Abort
    /\ UNCHANGED <<pager, session, cli, input, max_depth, high_quality, dirs, files, log, run, prev>>

\* lines 322-337
Primitive ==
    /\ Entered
    /\ ~IsContainer(filtered_data)
    /\ WriteEntries(PrimitiveEntries)

\* the root call returns to its caller
Return ==
    /\ status = "running"
    /\ stack = <<>>
    /\ status' = "done"
    /\ UNCHANGED <<pager, session, cli, input, max_depth, high_quality, stack, dirs, files, log, run, prev>>

\* the call is in a branch that writes files, and these are its files
WritesFiles == Entered /\ (~IsContainer(filtered_data) \/ top.current_depth >= max_depth)

PendingEntries ==
    IF IsDict(filtered_data) THEN MaxDepthEntries
    ELSE IF IsList(filtered_data) THEN ChunkEntries
    ELSE PrimitiveEntries

\* line 250 raises an OSError of the environment (permission, disk full,
\* path too long): nothing is made, and no handler stands between the call
\* and main
MkdirError ==
    /\ Entered
    /\ Abort
    /\ UNCHANGED <<pager, session, cli, input, max_depth, high_quality, dirs, files, log, run, prev>>

\* mutant: the files the failing call has written are taken back
OpenErrorRollsBack ==
    /\ WritesFiles
    /\ \E k \in 1..Len(PendingEntries) :
          LET done == WriteAll(SubSeq(PendingEntries, 1, k - 1), top.base_path, files, <<MkdirEvent>>)
          IN  /\ done.ok
              /\ dirs' = dirs \cup Prefixes(top.base_path)
              /\ files' = files
              /\ log' = log \o done.events
    /\ Abort
    /\ UNCHANGED <<pager, session, cli, input, max_depth, high_quality, run, prev>>

\* one of the open() calls of lines 259, 265, 307 and 336 raises an OSError of
\* the environment: the directory and the files written before it stay
OpenError ==
    /\ WritesFiles
    /\ \E k \in 1..Len(PendingEntries) :
          LET done == WriteAll(SubSeq(PendingEntries, 1, k - 1), top.base_path, files, <<MkdirEvent>>)
          IN  /\ done.ok
              /\ dirs' = dirs \cup Prefixes(top.base_path)
              /\ files' = done.files
              /\ log' = log \o done.events
    /\ Abort
    /\ UNCHANGED <<pager, session, cli, input, max_depth, high_quality, run, prev>>

RootFrame == Frame(input, <<>>, 0, None)

NoResult == [dirs |-> {}, files |-> EmptyFiles, status |-> "none"]

Finished == status \in {"done", "failed"}

\* a second, independent run on the same data, depth and base path: the base
\* path is either as the first run found it (fresh) or as the first run left it
RunAgain ==
    /\ Finished
    /\ run = 1
    /\ run' = 2
    /\ prev' = [dirs |-> dirs, files |-> files, status |-> status]
    /\ stack' = <<RootFrame>>
    /\ \E fresh \in BOOLEAN :
          /\ dirs' = IF fresh THEN {} ELSE dirs
          /\ files' = IF fresh THEN EmptyFiles ELSE files
    /\ log' = <<>>
    /\ status' = "running"
    /\ UNCHANGED <<pager, session, cli, input, max_depth, high_quality>>

-----------------------------------------------------------------------------
(* The paginated downloads of bsky_view.py *)

\* download_author_feed, download_custom_feed, download_timeline,
\* download_user_list and download_user_lists: the same loop around five
\* different API calls
Downloads == {"author_feed", "custom_feed", "timeline", "user_list", "user_lists"}

\* the limit argument; 0 stands for every falsy limit (None and 0)
PageLimits == {-1, 0, 1, 2, 99, 100, 101, 250}

\* the most items the API is asked for at once
MaxBatch == 100

\* the batch size when no limit is given
DefaultBatch(fn) == IF fn \in {"user_list", "user_lists"} THEN 30 ELSE 50

\* the collection on the server ends with the MaxRequests-th page at the latest
MaxRequests == 3

Min(a, b) == IF a <= b THEN a ELSE b

\* mutant: the batch cut to the limit, not to what remains of it
batch_size_OfLimit(fn, limit, remaining_limit) ==
    IF limit # 0 THEN Min(MaxBatch, limit) ELSE DefaultBatch(fn)

\* batch_size = min(100, remaining_limit) if limit else 50
batch_size(fn, limit, remaining_limit) ==
    IF limit # 0 THEN Min(MaxBatch, remaining_limit) ELSE DefaultBatch(fn)

\* no download is running
PagerIdle ==
    [fn |-> "none", limit |-> 0, pc |-> "idle", unbounded |-> FALSE, remaining_limit |-> 0,
     cursor |-> None, total |-> 0, requests |-> <<>>, responses |-> <<>>, result |-> "none"]

\* the call of a download: posts = [], cursor = None,
\* remaining_limit = limit if limit else float('inf')
PagerCalled(fn, limit) ==
    [fn |-> fn, limit |-> limit, pc |-> "called", unbounded |-> (limit = 0),
     remaining_limit |-> limit, cursor |-> None, total |-> 0, requests |-> <<>>,
     responses |-> <<>>, result |-> "none"]

\* the function returns {} from its except clause
ReturnEmpty == pager' = [pager EXCEPT !.pc = "returned", !.result = "empty"]

\* the statements before the loop; download_custom_feed first asks for the
\* feed generator, which can raise
Enter ==
    /\ pager.pc = "called"
    /\ \/ pager' = [pager EXCEPT !.pc = "while"]
       \/ pager.fn = "custom_feed" /\ ReturnEmpty
    /\ UNCHANGED <<tree, session, cli>>

\* while remaining_limit > 0
While ==
    /\ pager.pc = "while"
    /\ pager' = [pager EXCEPT !.pc = IF pager.unbounded \/ pager.remaining_limit > 0
                                       THEN "call" ELSE "result"]
    /\ UNCHANGED <<tree, session, cli>>

\* what the server can answer to a request for batch items: fewer, as many
\* or (a server that ignores the limit) more, with or without a cursor; the
\* page after which the collection ends has no cursor
PageSizes(batch) == {n \in {0, 1, batch - 1, batch, batch + 1} : n >= 0}

PageCursors(page) ==
    IF page >= MaxRequests THEN {None, VStr("")}
    ELSE {None, VStr(""), VStr("c" \o NatStr(page))}

\* one pass of the loop body: the request, the response, the bookkeeping and
\* the break test
Fetch ==
    /\ pager.pc = "call"
    /\ LET batch == batch_size(pager.fn, pager.limit, pager.remaining_limit)
           page == Len(pager.requests) + 1
       IN  \E n \in PageSizes(batch), next \in PageCursors(page) :
              pager' = [pager EXCEPT
                           !.requests = Append(@, [limit |-> batch, cursor |-> pager.cursor]),
                           !.responses = Append(@, [n |-> n, cursor |-> next]),
                           !.total = @ + n,
                           !.cursor = next,
                           !.remaining_limit = IF pager.unbounded THEN @ ELSE @ - n,
                           !.pc = IF ~Truthy(next) \/ n = 0 THEN "result" ELSE "while"]
    /\ UNCHANGED <<tree, session, cli>>

\* the API call raises: the except clause returns {}
FetchRaises ==
    /\ pager.pc = "call"
    /\ LET batch == batch_size(pager.fn, pager.limit, pager.remaining_limit)
       IN  pager' = [pager EXCEPT
                        !.requests = Append(@, [limit |-> batch, cursor |-> pager.cursor]),
                        !.pc = "returned", !.result = "empty"]
    /\ UNCHANGED <<tree, session, cli>>

\* the result dict; download_user_list reads list_data, which is unbound when
\* the loop body never ran
Result ==
    /\ pager.pc = "result"
    /\ IF pager.fn = "user_list" /\ pager.responses = <<>>
       THEN ReturnEmpty
       ELSE pager' = [pager EXCEPT !.pc = "returned", !.result = "dict"]
    /\ UNCHANGED <<tree, session, cli>>

-----------------------------------------------------------------------------
(* get_session of bsky_connect.py *)

\* no call of get_session is running
SessionIdle ==
    [pc |-> "idle", user_arg |-> None, password_arg |-> None, config_password |-> "",
     dir_ok |-> TRUE, stored |-> "absent", token_file |-> "absent",
     user_id |-> None, password |-> None, session_string |-> None,
     tested |-> FALSE, accepted |-> FALSE, prompted |-> FALSE, authenticated |-> 0,
     auth_ok |-> FALSE, save_attempted |-> FALSE, warned |-> FALSE,
     returned |-> None, error |-> ""]

\* What get_session finds: its arguments, BSKY_PASSWD, whether the tokens
\* directory can be made, and the token file of the user: "absent",
\* "corrupt" (not JSON, or not an object), "empty" (no session_string in it,
\* or an empty one) or "old" (the session string "old").
SessionCalled(user_arg, password_arg, config_password, dir_ok, stored) ==
    [SessionIdle EXCEPT !.pc = "called", !.user_arg = user_arg, !.password_arg = password_arg,
                        !.config_password = config_password, !.dir_ok = dir_ok,
                        !.stored = stored, !.token_file = stored]

\* DEFAULT_BSKY_ID
ConfigUser == VStr("myBot")

\* get_session raises
SessionRaises(error) == session' = [session EXCEPT !.pc = "raised", !.error = error]

\* the arguments, or else the configuration
Configure ==
    /\ session.pc = "called"
    /\ session' = [session EXCEPT
                      !.pc = "load",
                      !.user_id = IF Truthy(session.user_arg) THEN session.user_arg ELSE ConfigUser,
                      !.password = IF Truthy(session.password_arg) THEN session.password_arg
                                   ELSE VStr(session.config_password)]
    /\ UNCHANGED <<tree, pager, cli>>

\* load_token: get_token_file_path makes the tokens directory, outside any
\* try; a file that is absent, unreadable or without a session string gives
\* None or ""
LoadToken ==
    /\ session.pc = "load"
    /\ IF ~session.dir_ok THEN SessionRaises("mkdir")
       ELSE LET session_string == CASE session.stored = "old" -> VStr("old")
                                    [] session.stored = "empty" -> VStr("")
                                    [] OTHER -> None
            IN  session' = [session EXCEPT
                               !.session_string = session_string,
                               !.pc = IF Truthy(session_string) THEN "test" ELSE "password"]
    /\ UNCHANGED <<tree, pager, cli>>

\* session_string and test_token(session_string)
TestToken ==
    /\ session.pc = "test"
    /\ \E valid \in BOOLEAN :
          session' = [session EXCEPT
                         !.tested = TRUE, !.accepted = valid,
                         !.pc = IF valid THEN "returned" ELSE "password",
                         !.returned = IF valid THEN session.session_string ELSE None]
    /\ UNCHANGED <<tree, pager, cli>>

\* if not password: password = getpass(...), which returns what is typed or
\* raises EOFError when there is nothing to read
AskPassword ==
    /\ session.pc = "password"
    /\ IF Truthy(session.password)
       THEN session' = [session EXCEPT !.pc = "authenticate"]
       ELSE \/ \E typed \in {VStr(""), VStr("typed")} :
                  session' = [session EXCEPT !.pc = "authenticate", !.prompted = TRUE,
                                             !.password = typed]
            \/ session' = [session EXCEPT !.pc = "raised", !.prompted = TRUE, !.error = "getpass"]
    /\ UNCHANGED <<tree, pager, cli>>

\* authenticate returns a new session string, or None; no login succeeds
\* with an empty password
Authenticate ==
    /\ session.pc = "authenticate"
    /\ \E ok \in {FALSE} \cup {Truthy(session.password)} :
          session' = [session EXCEPT
                         !.authenticated = @ + 1, !.auth_ok = ok,
                         !.session_string = IF ok THEN VStr("new") ELSE None,
                         !.pc = IF ok THEN "save" ELSE "raised",
                         !.error = IF ok THEN "" ELSE "Failed to authenticate"]
    /\ UNCHANGED <<tree, pager, cli>>

\* save_token and the return: the file is written, or the open raises, False
\* comes back and the warning is printed
SaveToken ==
    /\ session.pc = "save"
    /\ \E written \in BOOLEAN :
          session' = [session EXCEPT
                         !.save_attempted = TRUE,
                         !.token_file = IF written THEN "new" ELSE @,
                         !.warned = ~written,
                         !.pc = "returned",
                         !.returned = session.session_string]
    /\ UNCHANGED <<tree, pager, cli>>

-----------------------------------------------------------------------------
(* main of bsky_profile_dl.py *)

UpperCase == "ABCDEFGHIJKLMNOPQRSTUVWXYZ"

LowerCase == "abcdefghijklmnopqrstuvwxyz"

LowerChar(c) ==
    IF \E i \in 1..Len(UpperCase) : Ch(UpperCase, i) = c
    THEN Ch(LowerCase, CHOOSE i \in 1..Len(UpperCase) : Ch(UpperCase, i) = c)
    ELSE c

\* str.lower() on ASCII
RECURSIVE PyLower(_)
PyLower(s) == IF s = "" THEN "" ELSE LowerChar(Ch(s, 1)) \o PyLower(SubSeq(s, 2, Len(s)))

normalize_handle(handle) ==
    LET lowered == PyLower(StripSpace(handle))
        bare == IF StartsWith(lowered, "@") THEN SubSeq(lowered, 2, Len(lowered)) ELSE lowered
    IN  IF ~HasChar(bare, ".") THEN bare \o ".bsky.social" ELSE bare

\* os.path.splitext of a name without directories: the extension starts at
\* the last dot, unless only dots come before it
SplitAt(path) ==
    LET dots == {i \in 1..Len(path) : Ch(path, i) = "."}
        last == IF dots = {} THEN 0 ELSE CHOOSE i \in dots : \A j \in dots : j <= i
    IN  IF last = 0 \/ \A j \in 1..(last - 1) : Ch(path, j) = "." THEN Len(path) ELSE last - 1

\* the file a handle's data is saved to
output_file(output, is_dir, total_handles, normalized_handle) ==
    IF total_handles = 1 THEN output
    ELSE IF is_dir THEN output \o "/" \o normalized_handle \o ".json"
    ELSE SubSeq(output, 1, SplitAt(output)) \o "_" \o normalized_handle
         \o SubSeq(output, SplitAt(output) + 1, Len(output))

\* main is not running
CliIdle ==
    [pc |-> "idle", handles |-> <<>>, test_access |-> FALSE, output |-> "", is_dir |-> FALSE,
     connected |-> FALSE, i |-> 0, normalized_handle |-> "", success_count |-> 0,
     processed |-> <<>>, saved |-> <<>>, exit |-> -1]

\* the command line: the handles, --test-access, and -o with what it names
\* (nothing, a file path or an existing directory)
CliCalled(handles, test_access, output, is_dir) ==
    [CliIdle EXCEPT !.pc = "called", !.handles = handles, !.test_access = test_access,
                    !.output = output, !.is_dir = is_dir]

\* connect(args.user, args.password): a client, or the outer except clause
\* and exit status 1
Connect ==
    /\ cli.pc = "called"
    /\ \/ cli' = [cli EXCEPT !.pc = "for", !.connected = TRUE]
       \/ cli' = [cli EXCEPT !.pc = "exited", !.exit = 1]
    /\ UNCHANGED <<tree, pager, session>>

\* for i, handle in enumerate(args.handles): the next handle, normalized
ForHandle ==
    /\ cli.pc = "for"
    /\ IF cli.i < Len(cli.handles)
       THEN cli' = [cli EXCEPT !.normalized_handle = normalize_handle(cli.handles[cli.i + 1]),
                               !.pc = IF cli.test_access THEN "test" ELSE "download"]
       ELSE cli' = [cli EXCEPT !.pc = "end"]
    /\ UNCHANGED <<tree, pager, session>>

\* what the loop has done with the current handle
Processed(outcome) == Append(cli.processed, [handle |-> cli.normalized_handle, outcome |-> outcome])

\* --test-access: test_profile_access catches its own errors; continue
TestAccess ==
    /\ cli.pc = "test"
    /\ cli' = [cli EXCEPT !.processed = Processed("tested"), !.i = @ + 1, !.pc = "for"]
    /\ UNCHANGED <<tree, pager, session>>

\* download_profile returns the data, or raises when the profile cannot be got
DownloadProfile ==
    /\ cli.pc = "download"
    /\ \E ok \in BOOLEAN : cli' = [cli EXCEPT !.pc = IF ok THEN "summary" ELSE "except"]
    /\ UNCHANGED <<tree, pager, session>>

\* the handle is done: success_count += 1
Success == [cli EXCEPT !.processed = Processed("ok"), !.success_count = @ + 1, !.i = @ + 1,
                       !.pc = "for"]

\* print_profile_summary, and with no -o the end of the try block
PrintSummary ==
    /\ cli.pc = "summary"
    /\ \/ cli' = IF cli.output # "" THEN [cli EXCEPT !.pc = "save"] ELSE Success
       \/ cli' = [cli EXCEPT !.pc = "except"]
    /\ UNCHANGED <<tree, pager, session>>

\* save_data_to_file: the open raises, always so on a directory, or the file
\* is written
SaveData ==
    /\ cli.pc = "save"
    /\ LET path == output_file(cli.output, cli.is_dir, Len(cli.handles), cli.normalized_handle)
       IN  \/ /\ ~(cli.is_dir /\ path = cli.output)
              /\ cli' = [Success EXCEPT !.saved = Append(@, path)]
           \/ cli' = [cli EXCEPT !.pc = "except"]
    /\ UNCHANGED <<tree, pager, session>>

\* mutant: an error ends the loop
HandleErrorBreaks ==
    /\ cli.pc = "except"
    /\ cli' = [cli EXCEPT !.processed = Processed("failed"), !.i = @ + 1, !.pc = "end"]
    /\ UNCHANGED <<tree, pager, session>>

\* except Exception: the message, and continue
HandleError ==
    /\ cli.pc = "except"
    /\ cli' = [cli EXCEPT !.processed = Processed("failed"), !.i = @ + 1, !.pc = "for"]
    /\ UNCHANGED <<tree, pager, session>>

\* return 0 if success_count > 0 else 1
Exit ==
    /\ cli.pc = "end"
    /\ cli' = [cli EXCEPT !.pc = "exited", !.exit = IF cli.success_count > 0 THEN 0 ELSE 1]
    /\ UNCHANGED <<tree, pager, session>>

-----------------------------------------------------------------------------
(* Inputs *)

P(key, value) == <<key, value>>

RECURSIVE Repeat(_, _)
Repeat(c, n) ==
    IF n <= 0 THEN "" ELSE IF n = 1 THEN c
    ELSE Repeat(c, n \div 2) \o Repeat(c, n - (n \div 2))

Scenario1 ==
    VMap(<<P("handle", VStr("alice.test")), P("did", VStr("did:plc:abc")),
           P("followers_count", VInt(10))>>)

Scenario2 ==
    VMap(<<P("posts", VList(<<VMap(<<P("text", VStr("hi")),
                                     P("author", VMap(<<P("handle", VStr("a.b"))>>))>>)>>))>>)

Scenario3 == VMap(<<P("pinned", VBool(FALSE)), P("name", VStr("n")), P("score", VFloat("1.5"))>>)

RECURSIVE Nested(_)
Nested(n) == IF n = 0 THEN VInt(7) ELSE VMap(<<P("k" \o NatStr(n), Nested(n - 1))>>)

Scenario4 == Nested(6)

LongUrl == "https://x" \o Repeat("y", 291)

LongText == Repeat("z", 101)

\* a feed item as the API returns it
FeedItem(text, handle) ==
    VMap(<<P("post", VMap(<<P("uri", VStr("at://did:plc:abc/app.bsky.feed.post/3k")),
                            P("record", VMap(<<P("text", VStr(text)), P("py_type", VStr("x"))>>)),
                            P("author", VMap(<<P("handle", VStr(handle)),
                                               P("viewer", VMap(<<P("muted", VBool(FALSE))>>))>>))>>))>>)

\* mappings that match one rule of the categorizer, several, or none
CategoryCases ==
    <<P("both", VMap(<<P("text", VStr("t")), P("author", VStr("a")), P("handle", VStr("h"))>>)),
      P("wrapped", VMap(<<P("post", VMap(<<P("cid", VStr("c"))>>)), P("did", VStr("d"))>>)),
      P("notpost", VMap(<<P("post", VInt(3)), P("by", VStr("x"))>>)),
      P("pic", VMap(<<P("handle", VStr("h")), P("images", VList(<<VInt(1)>>))>>)),
      P("link", VMap(<<P("external", VStr("thumbs up"))>>)),
      P("card", VMap(<<P("embed", VInt(1)), P("reply", VInt(2))>>)),
      P("up", VMap(<<P("root", VInt(1)), P("by", VInt(2))>>)),
      P("why", VMap(<<P("reason", VStr("r"))>>)),
      P("plain", VMap(<<P("text", VStr("only"))>>)),
      P("named", VMap(<<P("display_name", VStr("n")), P("parent", VInt(1))>>))>>

\* items that are named alike but for their index, and items nothing identifies
SameItems ==
    VList(<<VMap(<<P("handle", VStr("h"))>>), VMap(<<P("handle", VStr("h"))>>), VInt(5),
            VMap(<<P("x", VInt(1))>>), VMap(<<P("name", VInt(0)), P("title", VBool(FALSE))>>),
            VStr("0000_profiles_h"), VMap(<<P("uri", VStr("at://a/b/0001_item"))>>)>>)

\* a key whose 200th character is a dot
LongDottedKey == Repeat("a", 199) \o ".b"

\* keys and identifying values that name a place outside the base path
HostileKeys ==
    VMap(<<P("..", VInt(1)), P(".", VStr("..")), P("../x", VList(<<VInt(2)>>)),
           P("a/../b", VMap(<<P("/abs", VStr("/etc/passwd"))>>)), P("..\\..\\w", VBool(TRUE)),
           P("/", VInt(3)), P("\\", VInt(4)), P(". .", VInt(5))>>)

HostileItems ==
    VList(<<VMap(<<P("handle", VStr("../../etc/passwd"))>>),
            VMap(<<P("uri", VStr("at://did/../.."))>>),
            VMap(<<P("did", VStr("did:plc:../x"))>>),
            VMap(<<P("post", VMap(<<P("record", VMap(<<P("text", VStr("../../x"))>>))>>))>>),
            VMap(<<P("post", VMap(<<P("author", VMap(<<P("handle", VStr("..\\y/z"))>>))>>))>>),
            VMap(<<P("title", VStr(".."))>>), VMap(<<P("display_name", VStr("/"))>>),
            VStr("../up")>>)

Scenarios ==
    { Scenario1, Scenario2, Scenario3, Scenario4, SameItems, HostileKeys, HostileItems,
      \* keys longer than a name may be, and keys of spaces and dots
      VMap(<<P(LongDottedKey, VInt(1)), P(Repeat("b", 250), VInt(2)), P(" . x y\t.", VInt(3)),
             P(" ", VInt(4)), P(".", VInt(5))>>),
      VMap(<<P("data", VMap(CategoryCases))>>),
      VList([i \in 1..Len(CategoryCases) |-> CategoryCases[i][2]]),
      None, VStr(""), VStr("top"), VInt(-3), VBool(TRUE), VList(<<>>), VMap(<<>>),
      \* keys that sanitize to the same name
      VMap(<<P("a:b", VInt(1)), P("a_b", VInt(2))>>),
      VMap(<<P("a:b", VMap(<<P("a_b.int", VInt(5))>>)), P("a_b", VInt(7))>>),
      VMap(<<P("a_b", VInt(7)), P("a:b", VMap(<<P("a_b.int", VInt(5))>>))>>),
      VMap(<<P("a b", VList(<<VInt(1)>>)), P("a  b", VList(<<VInt(2), VInt(3)>>)), P("", VInt(4)),
             P("...", VInt(5)), P("unnamed", VInt(6))>>),
      \* a data section with more than 3 keys
      VMap(<<P("data", VMap(<<P("p1", VMap(<<P("text", VStr("t")), P("author", VStr("a"))>>)),
                              P("posts", VList(<<VInt(1)>>)),
                              P("who", VMap(<<P("handle", VStr("h@x.y"))>>)),
                              P("p2", VMap(<<P("post", VMap(<<P("cid", VStr("c"))>>))>>)),
                              P("n", VInt(2))>>))>>),
      VMap(<<P("data", VMap(<<P("a", VInt(1)), P("b", VInt(2)), P("c", VInt(3)),
                              P("d", VMap(<<P("x", VInt(4))>>))>>))>>),
      \* extensions
      VMap(<<P("u", VStr(LongUrl)), P("t", VStr(LongText)), P("a", VStr("at://a@b.c")),
             P("h", VStr("user@host.com")), P("d", VStr("did:plc:a@b.c")),
             P("e", VStr("did:plc:abc")), P("w", VStr("http://x")), P("f", VFloat("2.5")),
             P("b", VBool(FALSE)), P("m", VStr("at://did:plc:abc/p")), P("i", VInt(0))>>),
      VList(<<VStr(LongUrl), VStr(LongText), VStr("a@b.c"), VInt(1), VBool(TRUE), VFloat("0.5"),
              VStr(" "), None, VStr("did:web:x")>>),
      \* containers beyond and below the size of a chunk
      VMap(<<P("big", VList(<<VStr(Repeat("q", 500))>>)), P("small", VList(<<VStr("q")>>)),
             P("m", VMap(<<P("k", VStr("v\"w"))>>)), P("big:m", VMap(<<P("k", VStr(Repeat("r", 500)))>>))>>),
      \* media URLs
      VMap(<<P("thumb", VStr("https://cdn.bsky.app/img/feed_fullsize/plain/x@jpeg")),
             P("fullsize", VStr("https://example.org/feed_fullsize/x")),
             P("avatar", VStr("cdn.bsky.app/feed_feed_fullsizefullsize/feed_fullsize")),
             P("other", VStr("https://cdn.bsky.app/img/feed_fullsize/y")),
             P("images", VList(<<VMap(<<P("thumb", VInt(3))>>)>>)), P("size", VInt(10)),
             P("alt", VStr(""))>>),
      \* feeds
      VMap(<<P("feed", VList(<<FeedItem("Hello: world\nagain", "a.b"), FeedItem("", "c.d"),
                               VMap(<<P("did", VStr("did:plc:xyz")), P("labels", VList(<<VInt(1)>>))>>),
                               VMap(<<P("uri", VStr("at://x/y/zzz")), P("reason", VStr("r"))>>)>>)),
             P("type", VStr("author_feed")), P("total_posts", VInt(4))>>),
      \* names that raise
      VList(<<VInt(1), VMap(<<P("post", VMap(<<P("record", VInt(3))>>))>>), VInt(2)>>),
      VMap(<<P("l", VList(<<VMap(<<P("post", VMap(<<P("author", VStr("the handle"))>>))>>)>>)),
             P("z", VInt(1))>>),
      \* a key that is not denylisted and is given the name of one that is
      VMap(<<P("pinned.", VInt(1)), P("pinned", VBool(FALSE)), P("type:", VStr("t"))>>),
      \* what filtering empties
      VMap(<<P("x", VList(<<VList(<<>>), VMap(<<P("type", VInt(1))>>), None>>)),
             P("y", VList(<<VStr("")>>)), P("z", VStr(" \t")), P("n", None)>>),
      VList(<<VList(<<VInt(1), VInt(2)>>), VList(<<None>>), VMap(<<P("status", VInt(1))>>)>>) }

\* the -d/--max-depth values tried on the scenarios, and on the generated values
MaxDepth == 5

GenDepth == 2

\* the most keys or items of a generated container
MaxWidth == 2

GenScalars == {None, VInt(1), VStr(" "), VStr("cdn.bsky.app/feed_fullsize")}

GenKeys == {"a:b", "a_b", "thumb"}

SeqsUpTo(S, n) == UNION {[1..k -> S] : k \in 0..n}

DistinctKeys(kv) == \A i, j \in 1..Len(kv) : i # j => kv[i][1] # kv[j][1]

GenLists(S) == {VList(items) : items \in SeqsUpTo(S, MaxWidth)}

GenMaps(S) == {VMap(kv) : kv \in {x \in SeqsUpTo(GenKeys \X S, MaxWidth) : DistinctKeys(x)}}

Gen1 == GenLists(GenScalars) \cup GenMaps(GenScalars)

Gen2 ==
    {VList(<<x>>) : x \in Gen1}
    \cup {VMap(<<P("a b", x), P("pinned", VInt(3)), P("a_b", VInt(2))>>) : x \in Gen1}

Generated == GenScalars \cup Gen1 \cup Gen2

-----------------------------------------------------------------------------
(* Specification *)

\* high_quality is args.high_quality of main: line 490 prints it and nothing
\* passes it on to save_json_as_tree (line 494); the switch is tried on the
\* scenarios
Init ==
    /\ \/ input \in Scenarios /\ max_depth \in 0..MaxDepth /\ high_quality \in BOOLEAN
       \/ input \in Generated /\ max_depth \in 0..GenDepth /\ high_quality = FALSE
    /\ stack = <<RootFrame>>
    /\ dirs = {}
    /\ files = EmptyFiles
    /\ log = <<>>
    /\ status = "running"
    /\ run = 1
    /\ prev = NoResult
    /\ pager = PagerIdle
    /\ session = SessionIdle
    /\ cli = CliIdle

Next ==
    \/ ReturnAbsent
    \/ MkdirFails
    \/ MappingAtMaxDepth
    \/ MappingByCategory
    \/ MappingByKey
    \/ SequenceAtMaxDepth
    \/ SequenceByItem
    \/ NameRaises
    \/ Primitive
    \/ Return
    \/ RunAgain

Spec == Init /\ [][Next]_vars

\* one run on a scenario, in an environment where making a directory or
\* opening a file can fail
InitFail ==
    /\ input \in Scenarios /\ max_depth \in 0..MaxDepth /\ high_quality = FALSE
    /\ stack = <<RootFrame>>
    /\ dirs = {}
    /\ files = EmptyFiles
    /\ log = <<>>
    /\ status = "running"
    /\ run = 1
    /\ prev = NoResult
    /\ pager = PagerIdle
    /\ session = SessionIdle
    /\ cli = CliIdle

NextFail ==
    \/ ReturnAbsent
    \/ MkdirFails
    \/ MkdirError
    \/ MappingAtMaxDepth
    \/ MappingByCategory
    \/ MappingByKey
    \/ SequenceAtMaxDepth
    \/ SequenceByItem
    \/ NameRaises
    \/ Primitive
    \/ OpenError
    \/ Return

SpecFail == InitFail /\ [][NextFail]_vars

\* The same runs, never suspended: save_json_as_tree is sequential code on one
\* thread, with no wait and no cancellation, so whenever a step is possible
\* the interpreter takes one.
\* Its inputs are the scenarios that between them take every branch.
LiveInputs ==
    { Scenario1, Scenario2, Scenario3, None, VInt(-3),
      VMap(<<P("a_b", VInt(7)), P("a:b", VMap(<<P("a_b.int", VInt(5))>>))>>),
      VMap(<<P("data", VMap(<<P("a", VInt(1)), P("b", VInt(2)), P("c", VInt(3)),
                              P("d", VMap(<<P("x", VInt(4))>>))>>))>>),
      VList(<<VInt(1), VMap(<<P("post", VMap(<<P("record", VInt(3))>>))>>), VInt(2)>>) }

InitLive ==
    /\ input \in LiveInputs
    /\ max_depth \in 0..MaxDepth
    /\ high_quality = FALSE
    /\ stack = <<RootFrame>>
    /\ dirs = {}
    /\ files = EmptyFiles
    /\ log = <<>>
    /\ status = "running"
    /\ run = 1
    /\ prev = NoResult
    /\ pager = PagerIdle
    /\ session = SessionIdle
    /\ cli = CliIdle

SpecLive == InitLive /\ [][NextFail]_vars /\ WF_vars(NextFail)

\* save_json_as_tree is not running
TreeIdle ==
    /\ input = None
    /\ max_depth = 0
    /\ high_quality = FALSE
    /\ stack = <<>>
    /\ dirs = {}
    /\ files = EmptyFiles
    /\ log = <<>>
    /\ status = "idle"
    /\ run = 1
    /\ prev = NoResult

\* one call of one of the paginated downloads
InitPager ==
    /\ TreeIdle
    /\ \E fn \in Downloads, limit \in PageLimits : pager = PagerCalled(fn, limit)
    /\ session = SessionIdle
    /\ cli = CliIdle

NextPager == Enter \/ While \/ Fetch \/ FetchRaises \/ Result

SpecPager == InitPager /\ [][NextPager]_vars

\* one call of get_session
InitSession ==
    /\ TreeIdle
    /\ pager = PagerIdle
    /\ \E user_arg \in {None, VStr("alice")}, password_arg \in {None, VStr("pw")},
          config_password \in {"", "cfgpw"}, dir_ok \in BOOLEAN,
          stored \in {"absent", "corrupt", "empty", "old"} :
          \* there is no token file where the directory cannot be
          /\ dir_ok \/ stored = "absent"
          /\ session = SessionCalled(user_arg, password_arg, config_password, dir_ok, stored)
    /\ cli = CliIdle

NextSession == Configure \/ LoadToken \/ TestToken \/ AskPassword \/ Authenticate \/ SaveToken

SpecSession == InitSession /\ [][NextSession]_vars

\* the most handles on a command line
MaxHandles == 3

HandleArgs == {"alice.test", " @Bob "}

\* one run of bsky_profile_dl.main
InitCli ==
    /\ TreeIdle
    /\ pager = PagerIdle
    /\ session = SessionIdle
    /\ \E n \in 1..MaxHandles, test_access \in BOOLEAN,
          o \in {<<"", FALSE>>, <<"out.json", FALSE>>, <<"outdir", TRUE>>} :
          \E handles \in [1..n -> HandleArgs] :
              cli = CliCalled(handles, test_access, o[1], o[2])

NextCli ==
    \/ Connect
    \/ ForHandle
    \/ TestAccess
    \/ DownloadProfile
    \/ PrintSummary
    \/ SaveData
    \/ HandleError
    \/ Exit

SpecCli == InitCli /\ [][NextCli]_vars

-----------------------------------------------------------------------------
(* Properties *)

Last(path) == path[Len(path)]

EndsWith(s, suffix) == Len(s) >= Len(suffix) /\ SubSeq(s, Len(s) - Len(suffix) + 1, Len(s)) = suffix

\* p lies directly in the directory d
ChildOf(p, d) == Len(p) = Len(d) + 1 /\ SubSeq(p, 1, Len(d)) = d

RECURSIVE NoEmptyContainer(_)
NoEmptyContainer(v) ==
    IF IsDict(v) THEN v.kv # <<>> /\ \A i \in 1..Len(v.kv) : NoEmptyContainer(v.kv[i][2])
    ELSE IF IsList(v) THEN v.items # <<>> /\ \A i \in 1..Len(v.items) : NoEmptyContainer(v.items[i])
    ELSE TRUE

\* the scalars at the leaves of a value
RECURSIVE Leaves(_)
Leaves(v) ==
    IF IsDict(v) THEN UNION {Leaves(v.kv[i][2]) : i \in 1..Len(v.kv)}
    ELSE IF IsList(v) THEN UNION {Leaves(v.items[i]) : i \in 1..Len(v.items)}
    ELSE {v}

\* C1: filtering is idempotent, filter(filter(v)) = filter(v), for the input
\* of the run and for the data of every nested call, media URLs included.
C1_FilterIdempotent ==
    /\ filter_empty_and_noise(filter_empty_and_noise(input)) = filter_empty_and_noise(input)
    /\ CallPending => filter_empty_and_noise(filtered_data) = filtered_data

\* a run over a mapping whose media URL the filter has rewritten
C1_Witness ==
    /\ status = "done"
    /\ IsDict(input) /\ HasKey(input, "thumb")
    /\ IsDict(filter_empty_and_noise(input)) /\ HasKey(filter_empty_and_noise(input), "thumb")
    /\ Get(filter_empty_and_noise(input), "thumb") # Get(input, "thumb")
    /\ PyLen(filter_empty_and_noise(input)) < PyLen(input)

\* C2: no mapping or sequence anywhere in filter(v) is empty, at the root or
\* nested, for the input of the run and for the data of every nested call.
C2_NoEmptyContainers ==
    /\ NoEmptyContainer(filter_empty_and_noise(input))
    /\ CallPending => NoEmptyContainer(filtered_data)

\* a run over a value that holds an empty container and is not filtered away
C2_Witness ==
    /\ Finished
    /\ ~NoEmptyContainer(input)
    /\ filter_empty_and_noise(input) # None

\* C3 as claimed: no call whose current_depth is >= max_depth creates a directory.
C3_NoDirectoryAtMaxDepth ==
    \A i \in DOMAIN log : (log[i].op = "mkdir" /\ log[i].new) => log[i].depth < max_depth

\* C3 amended: a call at current_depth >= max_depth creates no directory but
\* its own base_path, writes only files directly inside it and calls no
\* further: no call is deeper than max_depth, a call's directory lies as many
\* levels below the base path as its depth, and no directory lies deeper
\* than max_depth.
C3_DepthBound ==
    /\ \A i \in DOMAIN log :
          /\ IsCall(log[i]) => log[i].depth <= max_depth /\ Len(log[i].path) = log[i].depth
          /\ IsWrite(log[i]) =>
                /\ log[log[i].call].op = "mkdir"
                /\ ChildOf(log[i].path, log[log[i].call].path)
                /\ log[i].path \notin dirs
          /\ (log[i].op = "mkdir" /\ log[i].depth >= max_depth) =>
                \A d \in dirs : Len(d) > Len(log[i].path) => SubSeq(d, 1, Len(log[i].path)) # log[i].path
    /\ \A d \in dirs : Len(d) <= max_depth

\* a call at max_depth, below the root, has made its directory and written a
\* container into a file of it
C3_Witness ==
    /\ status = "done"
    /\ max_depth >= 1
    /\ \E i, j \in DOMAIN log :
          /\ log[i].op = "mkdir" /\ log[i].new /\ log[i].depth = max_depth
          /\ IsWrite(log[j]) /\ log[j].call = i /\ IsContainer(log[j].val)

\* C4 as claimed: no two calls of a run are given the same directory path.
C4_UniqueDirectoryPaths ==
    \A i, j \in DOMAIN log :
        (i # j /\ IsCall(log[i]) /\ IsCall(log[j])) => log[i].path # log[j].path

\* C5 as claimed: no file path is written twice in a run, and when the run
\* completes every scalar leaf of the filtered input is in some file.
C5_WriteOnceNoLoss ==
    /\ \A i, j \in DOMAIN log :
          (i # j /\ IsWrite(log[i]) /\ IsWrite(log[j])) => log[i].path # log[j].path
    /\ (status = "done" /\ filter_empty_and_noise(input) # None) =>
          \A leaf \in Leaves(filter_empty_and_noise(input)) :
              \E q \in DOMAIN files :
                  \/ Contains(files[q], LeafContent(leaf))
                  \/ Contains(files[q], PyStr(leaf))
                  \/ Contains(files[q], json_dumps(leaf))

\* C6: a run whose filtered input is absent creates nothing, not even the
\* base path, and after a completed run every directory holds a file or a
\* directory.
C6_NoEmptyDirectories ==
    /\ filter_empty_and_noise(input) = None => dirs = {} /\ files = EmptyFiles
    /\ status = "done" => \A d \in dirs : \E q \in dirs \cup DOMAIN files : ChildOf(q, d)

\* a completed run that made directories for a mapping one of whose keys was
\* filtered to nothing
C6_Witness ==
    /\ status = "done"
    /\ dirs # {}
    /\ IsDict(input)
    /\ \E i \in 1..Len(input.kv) :
          /\ ~should_filter_key(input.kv[i][1])
          /\ IsContainer(input.kv[i][2])
          /\ filter_empty_and_noise(input.kv[i][2]) = None

ExtensionRules(v) ==
    << <<v.t = "null", ".null">>,
       <<v.t = "bool", ".bool">>,
       <<v.t = "int", ".int">>,
       <<v.t = "float", ".float">>,
       <<v.t = "str" /\ (StartsWith(v.s, "http://") \/ StartsWith(v.s, "https://")), ".url">>,
       <<v.t = "str" /\ StartsWith(v.s, "at://"), ".at_uri">>,
       <<v.t = "str" /\ HasChar(v.s, "@") /\ HasChar(v.s, "."), ".handle">>,
       <<v.t = "str" /\ StartsWith(v.s, "did:"), ".did">>,
       <<v.t = "str" /\ Len(v.s) > 100, ".text">>,
       <<v.t = "str", ".str">>,
       <<TRUE, ".txt">> >>

FirstMatch(rules) ==
    rules[CHOOSE i \in 1..Len(rules) : rules[i][1] /\ \A j \in 1..(i - 1) : ~rules[j][1]][2]

\* C8: the name of every leaf file ends with the extension of the first rule
\* of the claim's list that matches the value written; a boolean is never
\* .int and a URL longer than 100 characters is .url.
C8_ExtensionPrecedence ==
    \A i \in DOMAIN log :
        log[i].op = "leaf" =>
            /\ EndsWith(Last(log[i].path), FirstMatch(ExtensionRules(log[i].val)))
            /\ log[i].val.t = "bool" => ~EndsWith(Last(log[i].path), ".int")
            /\ (log[i].val.t = "str" /\ StartsWith(log[i].val.s, "https://")
                  /\ Len(log[i].val.s) > 100) => ~EndsWith(Last(log[i].path), ".text")

\* a run has written a URL of more than 100 characters, a boolean and a
\* string that matches both the at:// and the handle rule
C8_Witness ==
    /\ \E i \in DOMAIN log :
          /\ log[i].op = "leaf" /\ log[i].val = VStr(LongUrl)
          /\ EndsWith(Last(log[i].path), ".url")
    /\ \E i \in DOMAIN log :
          /\ log[i].op = "leaf" /\ log[i].val.t = "bool"
          /\ EndsWith(Last(log[i].path), ".bool")
    /\ \E i \in DOMAIN log :
          /\ log[i].op = "leaf" /\ log[i].val = VStr("at://a@b.c")
          /\ EndsWith(Last(log[i].path), ".at_uri")

Scenario1Done == input = Scenario1 /\ max_depth = 5 /\ status = "done"

\* C9 as claimed: scenario 1 leaves handle.handle, did.did and
\* followers_count.int directly in the directory.
C9_Scenario1FilesInDirectory ==
    Scenario1Done =>
        /\ {<<"handle.handle">>, <<"did.did">>, <<"followers_count.int">>} \subseteq DOMAIN files
        /\ files[<<"handle.handle">>] = "alice.test"
        /\ files[<<"did.did">>] = "did:plc:abc"
        /\ files[<<"followers_count.int">>] = "10"

\* C9 amended: scenario 1 leaves one directory per key, holding the files
\* handle/handle.str, did/did.did and followers_count/followers_count.int
\* with the contents alice.test, did:plc:abc and 10, and nothing else.
C9_Scenario1 ==
    Scenario1Done =>
        /\ dirs = {<<>>, <<"handle">>, <<"did">>, <<"followers_count">>}
        /\ DOMAIN files = {<<"handle", "handle.str">>, <<"did", "did.did">>,
                           <<"followers_count", "followers_count.int">>}
        /\ files[<<"handle", "handle.str">>] = "alice.test"
        /\ files[<<"did", "did.did">>] = "did:plc:abc"
        /\ files[<<"followers_count", "followers_count.int">>] = "10"

C9_Witness == Scenario1Done /\ Len(log) = 7

Scenario2Done == input = Scenario2 /\ max_depth = 5 /\ status = "done"

\* C10 as claimed: scenario 2 makes posts/0000_posts_a_b or posts/0000_posts_hi,
\* and in it the file author/handle.handle with the content a.b.
C10_Scenario2NamedByPost ==
    Scenario2Done =>
        \E name \in {"0000_posts_a_b", "0000_posts_hi"} :
            /\ <<"posts", name>> \in dirs
            /\ <<"posts", name, "author", "handle.handle">> \in DOMAIN files
            /\ files[<<"posts", name, "author", "handle.handle">>] = "a.b"

\* C10 amended: scenario 2 makes the list-item directory posts/0000_item, and
\* in it the file author/handle/handle.str with the content a.b (next to
\* text/text.str with the content hi).
C10_Scenario2 ==
    Scenario2Done =>
        /\ dirs = {<<>>, <<"posts">>, <<"posts", "0000_item">>,
                   <<"posts", "0000_item", "text">>, <<"posts", "0000_item", "author">>,
                   <<"posts", "0000_item", "author", "handle">>}
        /\ DOMAIN files = {<<"posts", "0000_item", "text", "text.str">>,
                           <<"posts", "0000_item", "author", "handle", "handle.str">>}
        /\ files[<<"posts", "0000_item", "author", "handle", "handle.str">>] = "a.b"
        /\ files[<<"posts", "0000_item", "text", "text.str">>] = "hi"

C10_Witness == Scenario2Done /\ Len(log) = 8

\* some mapping at some depth of v has a key of the denylist
RECURSIVE HasNoiseKey(_)
HasNoiseKey(v) ==
    IF IsDict(v)
    THEN \E i \in 1..Len(v.kv) : v.kv[i][1] \in filtered_keys \/ HasNoiseKey(v.kv[i][2])
    ELSE IF IsList(v) THEN \E i \in 1..Len(v.items) : HasNoiseKey(v.items[i])
    ELSE FALSE

\* the keys of the mappings of v, at every depth
RECURSIVE KeysOf(_)
KeysOf(v) ==
    IF IsDict(v)
    THEN {v.kv[i][1] : i \in 1..Len(v.kv)} \cup UNION {KeysOf(v.kv[i][2]) : i \in 1..Len(v.kv)}
    ELSE IF IsList(v) THEN UNION {KeysOf(v.items[i]) : i \in 1..Len(v.items)}
    ELSE {}

\* the part of a name before its first dot: the key of a file k.<extension>
BeforeDot(name) ==
    LET dots == {i \in 1..Len(name) : Ch(name, i) = "."}
    IN  IF dots = {} THEN name
        ELSE SubSeq(name, 1, (CHOOSE i \in dots : \A j \in dots : i <= j) - 1)

\* the name is what a key k gives: the directory k, or a file k.<extension>
NamedAfter(name, k) == name = k \/ StartsWith(name, k \o ".")

\* C11: no mapping at any depth of filter(v) has a denylisted key, for the
\* input of the run and for the data of every nested call; no pending call
\* was made for a denylisted key; and no directory or file of the tree is
\* named after a denylisted key (no pinned, no pinned.*), unless the input
\* holds another key, not denylisted, that is given that very name.
C11_NoNoiseKeys ==
    /\ (run = 1 /\ log = <<>>) => ~HasNoiseKey(filter_empty_and_noise(input))
    /\ CallPending => ~HasNoiseKey(filtered_data)
    /\ \A i \in DOMAIN stack :
          stack[i].parent_key # None => stack[i].parent_key.s \notin filtered_keys
    /\ \A p \in dirs \cup DOMAIN files : \A i \in DOMAIN p :
          BeforeDot(p[i]) \in filtered_keys =>
              \E other \in KeysOf(input) \ filtered_keys :
                  NamedAfter(sanitize_filename(other), BeforeDot(p[i]))

\* a completed run has written files for an input that holds a denylisted
\* key below its root
C11_Witness ==
    /\ status = "done"
    /\ DOMAIN files # {}
    /\ IsContainer(input)
    /\ \/ IsDict(input) /\ \E i \in 1..Len(input.kv) : HasNoiseKey(input.kv[i][2])
       \/ IsList(input) /\ \E i \in 1..Len(input.items) : HasNoiseKey(input.items[i])

Scenario4Done == input = Scenario4 /\ max_depth = 4 /\ status = "done"

\* the directory of the call that reaches depth 4 in scenario 4
Scenario4Depth4 == <<"k6", "k5", "k4", "k3">>

\* C12 as claimed: in scenario 4 the mapping reached at depth 4 does not
\* become a directory and is written into a single .json file.
C12_Scenario4SingleJson ==
    Scenario4Done =>
        /\ Scenario4Depth4 \notin dirs
        /\ Cardinality(DOMAIN files) = 1
        /\ \A q \in DOMAIN files : EndsWith(Last(q), ".json")

\* C12 amended: in scenario 4 the mapping reached at depth 4 becomes the
\* directory k6/k5/k4/k3, the last one made, and its only key becomes the
\* file k2.txt in it, holding the nested mapping as compact JSON; there is
\* no .json file.
C12_Scenario4 ==
    Scenario4Done =>
        /\ dirs = Prefixes(Scenario4Depth4)
        /\ DOMAIN files = {Append(Scenario4Depth4, "k2.txt")}
        /\ files[Append(Scenario4Depth4, "k2.txt")] = "{\"k1\": 7}"

C12_Witness == Scenario4Done /\ Len(log) = 6 /\ log[6].op = "leaf" /\ log[6].depth = 4

\* the strings under the keys fullsize, thumb and avatar that the filter
\* keeps: not blank, and not below a denylisted key
RECURSIVE MediaStrings(_)
MediaStrings(v) ==
    IF IsDict(v) THEN
        UNION {IF v.kv[i][1] \in filtered_keys THEN {}
               ELSE IF v.kv[i][1] \in MediaKeys /\ IsStr(v.kv[i][2])
                    THEN (IF StripSpace(v.kv[i][2].s) = "" THEN {} ELSE {v.kv[i][2].s})
                    ELSE MediaStrings(v.kv[i][2]) : i \in 1..Len(v.kv)}
    ELSE IF IsList(v) THEN UNION {MediaStrings(v.items[i]) : i \in 1..Len(v.items)}
    ELSE {}

\* the string is in the tree as it is, in a file of its own or inside a
\* serialized container
InOutput(s) == \E q \in DOMAIN files : Contains(files[q], s) \/ Contains(files[q], JsonBody(s))

\* C13 as claimed: with --high-quality the URL rewrite is off, and every
\* string under a media-URL key is in the output of a completed run exactly
\* as it was in the input.
C13_HighQualityKeepsUrls ==
    (high_quality /\ status = "done") => \A s \in MediaStrings(input) : InOutput(s)

Categories == {"posts", "profiles", "media", "embeds", "threads", "interactions", "content"}

\* the rules of the categorizer as the claim lists them, in its order
CategoryRules(m) ==
    << <<HasKey(m, "text") /\ HasKey(m, "author"), "posts">>,
       <<HasKey(m, "post") /\ IsDict(Get(m, "post")), "posts">>,
       <<HasKey(m, "handle") \/ HasKey(m, "did") \/ HasKey(m, "display_name"), "profiles">>,
       <<HasKey(m, "images") \/ Contains(PyStr(m), "fullsize") \/ Contains(PyStr(m), "thumb"),
         "media">>,
       <<HasKey(m, "external") \/ HasKey(m, "embed"), "embeds">>,
       <<HasKey(m, "reply") \/ HasKey(m, "parent") \/ HasKey(m, "root"), "threads">>,
       <<HasKey(m, "reason") \/ HasKey(m, "by"), "interactions">>,
       <<TRUE, "content">> >>

\* the mappings of v, v included, at every depth
RECURSIVE MapsOf(_)
MapsOf(v) ==
    IF IsDict(v) THEN {v} \cup UNION {MapsOf(v.kv[i][2]) : i \in 1..Len(v.kv)}
    ELSE IF IsList(v) THEN UNION {MapsOf(v.items[i]) : i \in 1..Len(v.items)}
    ELSE {}

\* the mappings a run can hand to the categorizer: when it starts, those of
\* the input, raw or filtered; at the call of a data section or of a category
\* folder, the data of the call, which is no part of the input
MapsInState ==
    (IF run = 1 /\ log = <<>>
     THEN MapsOf(input) \cup MapsOf(filter_empty_and_noise(input)) ELSE {})
    \cup (IF CallPending /\ top.parent_key \in {VStr(c) : c \in Categories \cup {"data"}}
         THEN {m \in {top.data, filtered_data} : IsDict(m)} ELSE {})

\* C14: for every mapping, categorize returns one of the seven categories,
\* the one of the first rule of the claim's list that matches; and the
\* mappings a data section groups under a category folder are those the
\* categorizer gives that category.
C14_CategorizeFirstMatch ==
    /\ \A m \in MapsInState :
          LET category == categorize_item_content(m)
          IN  category \in Categories /\ category = FirstMatch(CategoryRules(m))
    /\ (CallPending /\ top.parent_key = VStr("data") /\ top.current_depth < max_depth
          /\ IsDict(filtered_data) /\ PyLen(filtered_data) > 3) =>
             \A i \in 1..Len(filtered_data.kv) :
                 LET value == filtered_data.kv[i][2]
                     frames == CategoryFrames(top, filtered_data.kv)
                 IN  (IsDict(value) /\ FirstMatch(CategoryRules(value)) # "content") =>
                         \E j \in DOMAIN frames :
                             /\ frames[j].parent_key = VStr(FirstMatch(CategoryRules(value)))
                             /\ HasKey(frames[j].data, filtered_data.kv[i][1])

\* a data section has been grouped: a call for the folder media is pending
\* with a mapping that matches the media rule by its string form only and
\* the embeds rule by a key, and a call for the folder profiles with a
\* mapping that has both a handle and images
C14_Witness ==
    /\ \E i \in DOMAIN stack :
          /\ stack[i].kind = "call" /\ stack[i].parent_key = VStr("media")
          /\ Last(stack[i].base_path) = "media"
          /\ IsDict(stack[i].data) /\ HasKey(stack[i].data, "link")
          /\ HasKey(Get(stack[i].data, "link"), "external")
    /\ \E i \in DOMAIN stack :
          /\ stack[i].kind = "call" /\ stack[i].parent_key = VStr("profiles")
          /\ IsDict(stack[i].data) /\ HasKey(stack[i].data, "pic")
          /\ HasKey(Get(stack[i].data, "pic"), "images")

\* the call is about to name the items of a sequence (lines 311-312)
SequenceCall == Entered /\ IsList(filtered_data) /\ top.current_depth < max_depth

\* a field of the item can identify it: one of the generic identifying keys
\* with a value that is not empty, or a nested post with a record or an author
HasIdentifier(item) ==
    \/ \E i \in 1..Len(IdentifyingKeys) :
          HasKey(item, IdentifyingKeys[i]) /\ Truthy(Get(item, IdentifyingKeys[i]))
    \/ /\ HasKey(item, "post") /\ IsDict(Get(item, "post"))
       /\ (HasKey(Get(item, "post"), "record") \/ HasKey(Get(item, "post"), "author"))

\* indices at which the index takes one digit more
LargeIndices == {999, 9999, 99999}

\* the name of the item at place i of the sequence of the call
NameOfItem(i) == get_meaningful_list_name(filtered_data.items[i], i - 1)

SafeSegment(name) ==
    /\ name # ""
    /\ Len(name) <= 200
    /\ \A i \in 1..Len(name) : Ch(name, i) \notin IllegalChars /\ ~IsSpace(Ch(name, i))
    /\ Ch(name, 1) \notin {" ", "."}
    /\ Ch(name, Len(name)) \notin {" ", "."}

\* the name is nothing but dots, which the trimming removes
OnlyDots(name) == \A i \in 1..Len(name) : Ch(name, i) = "."

\* C16 as claimed: for every key a call is about to make a name of,
\* sanitize_filename returns a name that is not empty, has at most 200
\* characters, none of them illegal or whitespace, does not begin or end
\* with a space or a dot, and is "unnamed" when nothing is left of the key.
C16_SafeSegmentNames ==
    (CallPending /\ IsDict(filtered_data)) =>
        \A i \in 1..Len(filtered_data.kv) :
            LET key == filtered_data.kv[i][1]
            IN  /\ SafeSegment(sanitize_filename(key))
                /\ OnlyDots(key) => sanitize_filename(key) = "unnamed"

\* the nesting levels at which v occurs in root, root itself being at level n
RECURSIVE LevelsOf(_, _, _)
LevelsOf(v, root, n) ==
    (IF v = root THEN {n} ELSE {})
    \cup (IF IsDict(root) THEN UNION {LevelsOf(v, root.kv[i][2], n + 1) : i \in 1..Len(root.kv)}
         ELSE IF IsList(root) THEN UNION {LevelsOf(v, root.items[i], n + 1) : i \in 1..Len(root.items)}
         ELSE {})

\* the nesting levels of the data of the pending call in the filtered input
TopLevels == LevelsOf(top.data, filter_empty_and_noise(input), 0)

\* the path runs through a folder named like a category, in a data section
BelowCategoryFolder(path) ==
    \E i \in 1..(Len(path) - 1) : path[i] = "data" /\ path[i + 1] \in Categories \ {"content"}

\* C17 as claimed: a value nested n levels deep in the filtered input is
\* materialized by a call with current_depth = n, under a category folder
\* as anywhere else.
C17_GroupingKeepsDepth ==
    (CallPending /\ TopLevels # {}) => top.current_depth \in TopLevels

\* C17 amended: every call is given a current_depth equal to the number of
\* directories between the base path and its own, a category folder counting
\* for one; so a value nested n levels deep is materialized with
\* current_depth = n, or with n + 1 when it lies under a category folder.
C17_DepthAccounting ==
    /\ \A i \in DOMAIN stack : stack[i].current_depth = Len(stack[i].base_path)
    /\ (CallPending /\ TopLevels # {}) =>
          \/ top.current_depth \in TopLevels
          \/ top.current_depth - 1 \in TopLevels /\ BelowCategoryFolder(top.base_path)

\* the call for a mapping that a data section has put under the folder posts
\* is pending: the mapping is nested 2 levels deep and the call is at depth 3
C17_Witness ==
    /\ CallPending
    /\ top.base_path = <<"data", "posts", "both">>
    /\ top.data = CategoryCases[1][2]
    /\ TopLevels = {2}
    /\ top.current_depth = 3

\* the directories the calls of the log have made
DirsOfLog == UNION {Prefixes(log[i].path) : i \in {j \in DOMAIN log : log[j].op = "mkdir"}}

\* the log writes nothing to the path after its entry i
LastWrite(i) == \A j \in DOMAIN log : (j > i /\ IsWrite(log[j])) => log[j].path # log[i].path

\* C18: when a run has failed, no call is left pending (the error has
\* unwound every call up to main), and the tree is what the run had written
\* up to the failing step: every directory made and every file written is
\* there with the content last written to it, and nothing else.
C18_FailureKeepsTree ==
    status = "failed" =>
        /\ stack = <<>>
        /\ dirs = DirsOfLog
        /\ DOMAIN files = {log[i].path : i \in {j \in DOMAIN log : IsWrite(log[j])}}
        /\ \A i \in DOMAIN log :
              (IsWrite(log[i]) /\ LastWrite(i)) => files[log[i].path] = log[i].content

\* the third file of scenario 1 at max_depth 0 could not be opened: the
\* directory and the first two files are there
C18_Witness ==
    /\ input = Scenario1 /\ max_depth = 0
    /\ status = "failed"
    /\ dirs = {<<>>}
    /\ DOMAIN files = {<<"handle.str">>, <<"did.did">>}

\* the sequences of v, v included, at every depth
RECURSIVE ListsOf(_)
ListsOf(v) ==
    IF IsDict(v) THEN UNION {ListsOf(v.kv[i][2]) : i \in 1..Len(v.kv)}
    ELSE IF IsList(v) THEN {v} \cup UNION {ListsOf(v.items[i]) : i \in 1..Len(v.items)}
    ELSE {}

\* the values the run hands to the filter: when it starts, the input and
\* the sequences in it; at a call, the data of the call
FilterArguments ==
    (IF run = 1 /\ log = <<>> THEN {input} \cup ListsOf(input) \cup Leaves(input) ELSE {})
    \cup (IF CallPending THEN {top.data} ELSE {})

IsScalar(v) == ~IsContainer(v)

IsNonNullScalar(v) == ~IsContainer(v) /\ v # None

\* the items of filter(l), none when nothing is left of l
FilteredItems(l) ==
    IF filter_empty_and_noise(l) = None THEN <<>> ELSE filter_empty_and_noise(l).items

\* C19 as claimed: the filter returns a scalar unchanged, and the scalar
\* items of a filtered sequence are the scalar items of the sequence, null
\* items and blank strings included, in their order.
C19_SequenceKeepsScalars ==
    \A v \in FilterArguments :
        /\ IsScalar(v) => filter_empty_and_noise(v) = v
        /\ IsList(v) => SelectSeq(FilteredItems(v), IsScalar) = SelectSeq(v.items, IsScalar)

\* C19 amended: the filter returns a scalar unchanged, and the scalar items
\* of a filtered sequence are the scalar items of the sequence that are not
\* null, blank strings included, in their order; no null item is left.
C19_SequenceKeepsNonNullScalars ==
    \A v \in FilterArguments :
        /\ IsScalar(v) => filter_empty_and_noise(v) = v
        /\ IsList(v) =>
              /\ SelectSeq(FilteredItems(v), IsScalar) = SelectSeq(v.items, IsNonNullScalar)
              /\ \A i \in DOMAIN FilteredItems(v) : FilteredItems(v)[i] # None

\* the calls for the items of a sequence are pending: there is one for a
\* blank string and none for the null item of the input
C19_Witness ==
    /\ IsList(input)
    /\ \E i \in DOMAIN input.items : input.items[i] = None
    /\ Len(log) = 1 /\ log[1].op = "mkdir"
    /\ \E i \in DOMAIN stack : stack[i].data = VStr(" ")
    /\ \E i \in DOMAIN stack : stack[i].data.t = "int"
    /\ \A i \in DOMAIN stack : stack[i].data # None
    /\ Len(stack) = Len(SelectSeq(input.items, IsNonNullScalar))

\* the mappings the run hands to the filter: when it starts, those of the
\* input; at a call, the data of the call
FilteredMappings ==
    (IF run = 1 /\ log = <<>> THEN MapsOf(input) ELSE {})
    \cup (IF CallPending /\ IsDict(top.data) THEN {top.data} ELSE {})

\* nothing is left of a container: the filter's absent
Absent(v) == IsContainer(v) /\ filter_empty_and_noise(v) = None

Blank(v) == IsStr(v) /\ StripSpace(v.s) = ""

\* the pair survives as the claim has it: a null is a value, not absent
SurvivesAsClaimed(pair) ==
    /\ pair[1] \notin filtered_keys
    /\ ~Absent(pair[2])
    /\ ~Blank(pair[2])

\* the pair survives: a null value is dropped like an absent one
Survives(pair) ==
    /\ pair[1] \notin filtered_keys
    /\ filter_empty_and_noise(pair[2]) # None
    /\ ~Blank(pair[2])

\* the value a surviving media-URL key is mapped to
Rewritten(key, value) ==
    IF key \in MediaKeys /\ IsStr(value) THEN VStr(modify_media_quality(value.s)) ELSE value

\* C20 as claimed: the keys of filter(m) are the keys of m that are not
\* denylisted and whose filtered value is not absent, not an empty container
\* and not a blank string, in the order of m, each with its filtered value;
\* filter(m) is absent when there is none.
C20_SurvivingKeysAsClaimed ==
    \A m \in FilteredMappings :
        LET kept == SelectSeq(m.kv, SurvivesAsClaimed)
            pairs == [i \in 1..Len(kept) |-> <<kept[i][1], filter_empty_and_noise(kept[i][2])>>]
        IN  filter_empty_and_noise(m) = IF pairs = <<>> THEN None ELSE VMap(pairs)

\* C20 amended: the keys of filter(m) are the keys of m that are not
\* denylisted and whose filtered value is not absent, not null, not an empty
\* container and not a blank string, in the order of m, each with its
\* filtered value, rewritten by modify_media_quality when the key is
\* fullsize, thumb or avatar and the value a string; filter(m) is absent
\* when there is none.
C20_SurvivingKeys ==
    \A m \in FilteredMappings :
        LET kept == SelectSeq(m.kv, Survives)
            pairs == [i \in 1..Len(kept) |->
                         <<kept[i][1], Rewritten(kept[i][1], filter_empty_and_noise(kept[i][2]))>>]
        IN  /\ filter_empty_and_noise(m) = IF pairs = <<>> THEN None ELSE VMap(pairs)
            /\ \A i \in DOMAIN pairs : ~(IsContainer(pairs[i][2]) /\ PyLen(pairs[i][2]) = 0)

\* the call over a mapping with a null value and a media URL has descended:
\* the only call pending is the one for the media key, with the URL rewritten
C20_Witness ==
    /\ IsDict(input) /\ Len(input.kv) = 2
    /\ \E i \in 1..Len(input.kv) : input.kv[i][2] = None
    /\ HasKey(input, "thumb") /\ Get(input, "thumb") = VStr("cdn.bsky.app/feed_fullsize")
    /\ Len(log) = 1 /\ log[1].op = "mkdir"
    /\ Len(stack) = 1
    /\ stack[1].parent_key = VStr("thumb")
    /\ stack[1].data = VStr("cdn.bsky.app/feed_thumbnail")

\* the call at the top of the stack has passed line 250 with a sequence at or
\* beyond max_depth
SequenceReachedAtMaxDepth ==
    /\ status = "running" /\ stack # <<>> /\ top.kind = "call"
    /\ IsList(filter_empty_and_noise(top.data))
    /\ ~MkdirRaises(top.base_path, files)
    /\ top.current_depth >= max_depth

\* the name of the file of a sequence whose call was given parent_key
ChunkName(parent_key) ==
    sanitize_filename(IF parent_key = None \/ parent_key.s = "" THEN "list" ELSE parent_key.s)
        \o "_chunk.json"

\* the step of a call that has reached a sequence at max depth
ChunkStep ==
    SequenceReachedAtMaxDepth =>
        LET path == Append(top.base_path, ChunkName(top.parent_key))
            whole == json_dump_indent2(filter_empty_and_noise(top.data))
        IN  /\ dirs' = dirs \cup Prefixes(top.base_path)
            /\ stack' = IF path \in dirs THEN <<>> ELSE Tail(stack)
            /\ status' = IF path \in dirs THEN "failed" ELSE "running"
            /\ files' = IF path \in dirs THEN files
                        ELSE [q \in DOMAIN files \cup {path} |->
                                 IF q = path THEN whole ELSE files[q]]

\* C21: a call that reaches a sequence at current_depth >= max_depth makes its
\* directory and writes exactly one file into it, named
\* sanitize_filename(parent_key or "list") + "_chunk.json" and holding the
\* whole filtered sequence as indented JSON; it calls no further, so that no
\* directory or file is made for an item (when a directory has the name of
\* the file, the open raises and nothing is written).
C21_SequenceChunk == [][ChunkStep]_vars

\* a completed run has written a sequence of several items as a chunk, from a
\* call below the root, and the directory of that call holds nothing else
C21_Witness ==
    /\ status = "done"
    /\ \E i \in DOMAIN log :
          /\ log[i].op = "chunk" /\ log[i].depth >= 1
          /\ PyLen(log[i].val) >= 2
          /\ Last(log[i].path) = ChunkName(VStr(Last(log[log[i].call].path)))
          /\ \A q \in dirs \cup DOMAIN files :
                (Len(q) >= Len(log[i].path) /\ SubSeq(q, 1, Len(log[i].path) - 1) = log[log[i].call].path)
                    => q = log[i].path

\* the call at the top of the stack has passed line 250 with a mapping at or
\* beyond max_depth
MappingReachedAtMaxDepth ==
    /\ status = "running" /\ stack # <<>> /\ top.kind = "call"
    /\ IsDict(filter_empty_and_noise(top.data))
    /\ ~MkdirRaises(top.base_path, files)
    /\ top.current_depth >= max_depth

\* the file the claim gives a key of such a mapping, and what it holds
KeyFileName(key, value) ==
    IF IsContainer(value) /\ Len(PyStr(value)) > ChunkThreshold
    THEN sanitize_filename(key) \o ".json"
    ELSE get_filename_for_value(key, value)

KeyFileContent(value) ==
    IF IsContainer(value)
    THEN (IF Len(PyStr(value)) > ChunkThreshold THEN json_dump_indent2(value) ELSE json_dumps(value))
    ELSE PyStr(value)

\* the step of a call that has reached a mapping at max depth
KeyFilesStep ==
    MappingReachedAtMaxDepth =>
        LET kv == filter_empty_and_noise(top.data).kv
            path(i) == Append(top.base_path, KeyFileName(kv[i][1], kv[i][2]))
            paths == {path(i) : i \in 1..Len(kv)}
        IN  /\ dirs' = dirs \cup Prefixes(top.base_path)
            /\ status' = "running" =>
                  /\ stack' = Tail(stack)
                  /\ Cardinality(paths) = Len(kv)
                  /\ DOMAIN files' = DOMAIN files \cup paths
                  /\ \A i \in 1..Len(kv) : files'[path(i)] = KeyFileContent(kv[i][2])
                  /\ \A q \in DOMAIN files \ paths : files'[q] = files[q]

\* C22 as claimed: a call that reaches a mapping at current_depth >= max_depth
\* makes no directory but its own and calls no further, and writes exactly
\* one file per surviving key: sanitize_filename(key) + ".json" with indented
\* JSON for a container whose str() is longer than 500 characters, and the
\* leaf file get_filename_for_value(key, value) for every other value (a
\* small container as compact JSON in a .txt file).
C22_OneFilePerKey == [][KeyFilesStep]_vars

\* C23: re-applying the filter in nested calls changes nothing. The data every
\* nested call is given is already a fixed point of the filter, so line 245
\* returns it as it is and a materializer that filters once at the top and
\* skips line 245 in nested calls takes the same steps; no nested call
\* finds nothing left of its data; and the root call computes the same
\* filtered data for v and for filter(v), so both leave the same tree.
C23_Hoisting ==
    /\ (CallPending /\ top.current_depth > 0) =>
          /\ filtered_data = top.data
          /\ top.data # None
    /\ \A i \in DOMAIN log : log[i].op = "absent" => i = 1
    /\ (run = 1 /\ log = <<>>) =>
          LET v == filter_empty_and_noise(input)
          IN  filter_empty_and_noise(Frame(v, <<>>, 0, None).data) = v

\* a nested call is about to filter a container again, two levels below an
\* input that the filter at the top has changed
C23_Witness ==
    /\ CallPending
    /\ top.current_depth >= 2
    /\ IsContainer(top.data)
    /\ filter_empty_and_noise(input) # input
    /\ filter_empty_and_noise(input) # None

\* the call at the top of the stack has passed line 250 with a value that is
\* neither a mapping nor a sequence
ScalarReached ==
    /\ status = "running" /\ stack # <<>> /\ top.kind = "call"
    /\ filter_empty_and_noise(top.data) # None
    /\ ~IsContainer(filter_empty_and_noise(top.data))
    /\ ~MkdirRaises(top.base_path, files)

\* "true"/"false", the number as str() gives it, or the string itself
ScalarContent(value) ==
    IF value.t = "bool" THEN (IF value.b THEN "true" ELSE "false")
    ELSE IF value.t = "str" THEN value.s
    ELSE PyStr(value)

\* the step of such a call as the claim has it: the file beside base_path
ScalarStepAsClaimed ==
    (ScalarReached /\ top.base_path # <<>>) =>
        LET value == filter_empty_and_noise(top.data)
            key == IF top.parent_key = None THEN "" ELSE top.parent_key.s
            parent == SubSeq(top.base_path, 1, Len(top.base_path) - 1)
            path == Append(parent, get_filename_for_value(key, value))
        IN  /\ top.base_path \notin dirs'
            /\ path \in DOMAIN files'
            /\ files'[path] = ScalarContent(value)

\* C24 as claimed: a scalar is written as a single file in the parent
\* directory of base_path, not inside it, named
\* get_filename_for_value(parent_key, value) with the base name "data" when
\* there is no parent key.
C24_ScalarBesideTarget == [][ScalarStepAsClaimed]_vars

\* the step of such a call: the file inside base_path
ScalarStep ==
    ScalarReached =>
        LET value == filter_empty_and_noise(top.data)
            key == IF top.parent_key = None \/ top.parent_key.s = "" THEN "value"
                   ELSE top.parent_key.s
            path == Append(top.base_path, get_filename_for_value(key, value))
        IN  /\ dirs' = dirs \cup Prefixes(top.base_path)
            /\ stack' = IF path \in dirs THEN <<>> ELSE Tail(stack)
            /\ status' = IF path \in dirs THEN "failed" ELSE "running"
            /\ files' = IF path \in dirs THEN files
                        ELSE [q \in DOMAIN files \cup {path} |->
                                 IF q = path THEN ScalarContent(value) ELSE files[q]]

\* C24 amended: a scalar is written as a single file inside base_path, which
\* the call makes as a directory, named
\* get_filename_for_value(parent_key or "value", value); its content is
\* "true"/"false", the number as str() gives it or the raw string, and the
\* call changes nothing else and calls no further (when a directory has the
\* name of the file, the open raises and nothing is written). A null is never
\* written: the call returns before line 250.
C24_ScalarInsideTarget == [][ScalarStep]_vars

\* a completed run has written a boolean below max_depth into the directory
\* it has made for the boolean's key
C24_Witness ==
    /\ status = "done"
    /\ \E i \in DOMAIN log :
          /\ log[i].op = "leaf" /\ log[i].depth >= 1 /\ log[i].depth < max_depth
          /\ log[i].val.t = "bool"
          /\ log[log[i].call].new
          /\ ChildOf(log[i].path, log[log[i].call].path)
          /\ log[i].content \in {"true", "false"}

\* the calls that are nested when the call at the top of the stack runs: one
\* for every level of its directory below the base path, and the root call
NestedCalls == Len(top.base_path) + 1

\* C25: every run ends. A run in which no operation fails returns to its
\* caller (status "done"); a failing operation ends the run at once: it is
\* the last step, it leaves no call pending and nothing is done after it.
\* No more than max_depth + 1 calls are ever nested.
C25_Terminates ==
    /\ (status = "running") ~> Finished
    /\ [](status = "failed" => stack = <<>>)
    /\ [][~Finished]_vars
    /\ [](stack # <<>> => NestedCalls <= max_depth + 1)

\* a run has returned after going down to max_depth, four levels or more
C25_Witness ==
    /\ status = "done"
    /\ max_depth >= 4
    /\ \E d \in dirs : Len(d) = max_depth

\* a name that stays where it is put: not empty, not "." or "..", and holding
\* no path separator
ContainedName(name) ==
    /\ name \notin {"", ".", ".."}
    /\ ~HasChar(name, "/")
    /\ ~HasChar(name, "\\")

\* the input holds a key or a string that names a place outside the base path
Hostile(v) ==
    \E s \in {l.s : l \in {m \in Leaves(v) : IsStr(m)}} \cup KeysOf(v) : ~ContainedName(s)

\* C26: every directory and file of the tree lies below the base path of the
\* root call: its path is a sequence of names under that base path, none of
\* them empty, "." or ".." and none holding "/" or "\", whatever the keys and
\* strings of the input; a file is never the base path itself.
C26_PathContainment ==
    /\ \A q \in dirs \cup DOMAIN files : \A i \in 1..Len(q) : ContainedName(q[i])
    /\ <<>> \notin DOMAIN files

\* a completed run over an input with hostile keys or strings has made
\* directories at several levels and written files
C26_Witness ==
    /\ status = "done"
    /\ input \in {HostileKeys, HostileItems}
    /\ Hostile(input)
    /\ \E d \in dirs : Len(d) >= 2
    /\ files # EmptyFiles

\* C27 as claimed: a scalar is written with the same content by the branch
\* for a mapping at max depth (lines 261-266) as by the branch for a
\* primitive (lines 322-337): "true"/"false" for a boolean, str() of a
\* number, the string itself for a string.
C27_LeafContentSameInBothBranches ==
    \A i \in DOMAIN log :
        (log[i].op = "leaf" /\ ~IsContainer(log[i].val)) =>
            log[i].content = ScalarContent(log[i].val)

\* the items of the first k responses
RECURSIVE Received(_)
Received(k) == IF k = 0 THEN 0 ELSE Received(k - 1) + pager.responses[k].n

\* no response has held more items than its request asked for
WithinBatch ==
    \A k \in DOMAIN pager.responses : pager.responses[k].n <= pager.requests[k].limit

\* C28: in a download called with a positive limit L, as long as no response
\* holds more than the requested batch size: every request asks for
\* min(100, L - items received so far); the first request carries no cursor
\* and every later one the cursor of the response before it; a request is
\* made only while fewer than L items are there and the last response had
\* both a cursor and items; and the items counted never exceed L.
C28_LimitBoundedPagination ==
    (pager.limit > 0 /\ WithinBatch) =>
        /\ \A k \in DOMAIN pager.requests :
              /\ pager.requests[k].limit = Min(100, pager.limit - Received(k - 1))
              /\ pager.requests[k].limit >= 1
              /\ pager.requests[k].cursor = IF k = 1 THEN None ELSE pager.responses[k - 1].cursor
              /\ k > 1 => /\ Truthy(pager.responses[k - 1].cursor)
                          /\ pager.responses[k - 1].n > 0
                          /\ Received(k - 1) < pager.limit
        /\ pager.total = Received(Len(pager.responses))
        /\ pager.total <= pager.limit
        /\ (pager.pc = "call" /\ pager.responses # <<>>) =>
              /\ pager.total < pager.limit
              /\ Truthy(pager.cursor)
              /\ pager.responses[Len(pager.responses)].n > 0
        /\ pager.result = "dict" =>
              \/ pager.total = pager.limit
              \/ ~Truthy(pager.cursor)
              \/ pager.responses[Len(pager.responses)].n = 0

\* a download with limit 250 has returned after three requests, for 100, 100
\* and 50 items, with all 250
C28_Witness ==
    /\ pager.pc = "returned" /\ pager.result = "dict"
    /\ pager.limit = 250
    /\ Len(pager.requests) = 3
    /\ pager.requests[3].limit = 50
    /\ pager.requests[3].cursor = VStr("c2")
    /\ pager.total = 250

\* get_session has returned or raised
SessionEnded == session.pc \in {"returned", "raised"}

\* get_session has returned the stored session string
ReturnedStored == session.pc = "returned" /\ session.authenticated = 0

\* C29 as claimed: the stored session string is returned without
\* authenticating only if it exists and test_token accepted it; in every
\* other call authenticate is called, and either it fails and get_session
\* raises without writing a token file, or it succeeds, save_token is
\* attempted and the new session string is returned, whether or not the save
\* worked.
C29_SessionAcquisition ==
    /\ ReturnedStored =>
          /\ session.stored = "old" /\ session.tested /\ session.accepted
          /\ session.returned = VStr("old")
    /\ (SessionEnded /\ ~ReturnedStored) =>
          /\ session.authenticated = 1
          /\ \/ /\ ~session.auth_ok
                /\ session.pc = "raised"
                /\ ~session.save_attempted
                /\ session.token_file = session.stored
             \/ /\ session.auth_ok
                /\ session.pc = "returned"
                /\ session.save_attempted
                /\ session.returned = VStr("new")
                /\ session.warned <=> session.token_file # "new"

\* C30: once connected, main goes through the handles of the command line in
\* their order, whatever fails on the way: the k-th handle dealt with is the
\* k-th argument (normalized), and when main exits every handle has been
\* dealt with; success_count is the number of handles whose download,
\* summary and (with -o) save went through; the exit status is 0 if and only
\* if there is at least one, so it is 1 when every handle failed and
\* whenever --test-access is given.
C30_EveryHandleProcessed ==
    LET succeeded == {k \in DOMAIN cli.processed : cli.processed[k].outcome = "ok"}
    IN  /\ Len(cli.processed) = cli.i
        /\ \A k \in DOMAIN cli.processed :
              /\ k <= Len(cli.handles)
              /\ cli.processed[k].handle = normalize_handle(cli.handles[k])
              /\ cli.processed[k].outcome = "tested" <=> cli.test_access
        /\ cli.success_count = Cardinality(succeeded)
        /\ (cli.output # "" /\ ~cli.test_access) => Len(cli.saved) = cli.success_count
        /\ cli.output = "" => cli.saved = <<>>
        /\ (cli.pc = "exited" /\ cli.connected) =>
              /\ Len(cli.processed) = Len(cli.handles)
              /\ cli.exit \in {0, 1}
              /\ cli.exit = 0 <=> succeeded # {}
              /\ cli.test_access => cli.exit = 1

\* main has exited with status 0 after three handles: the download of the
\* first failed, the second was saved, the third failed
C30_Witness ==
    /\ cli.pc = "exited" /\ cli.exit = 0
    /\ Len(cli.handles) = 3
    /\ Len(cli.processed) = 3
    /\ cli.processed[1].outcome = "failed"
    /\ cli.processed[2].outcome = "ok"
    /\ cli.processed[3].outcome = "failed"
    /\ cli.saved = <<"out_bob.bsky.social.json">>

====
